---- MODULE Spec2Model ----
(***************************************************************************)
(* Model of the device telemetry and video fan-out engine:                 *)
(*   - the two ground-station codecs (SIYIProtocol, SIYIMK15),             *)
(*   - the SIYIMK15 receive loop and its command/callback table,           *)
(*   - the JetsonCamera frame queue (capture loop and consumer),           *)
(*   - the StreamOrchestrator dispatch loop and its three sinks.           *)
(* Each component has its own group of variables and its own               *)
(* specification; a specification leaves the other groups untouched.       *)
(***************************************************************************)
EXTENDS Integers, Sequences, FiniteSets, TLC

VARIABLES
  \* ---- codec group: one encode / truncate / decode experiment
  cdCodec,      \* "SIYIProtocol" or "SIYIMK15"
  cdCmd,        \* command id handed to build_packet
  cdPayload,    \* payload handed to build_packet
  cdWire,       \* the bytes handed to parse_packet
  cdResult,     \* what parse_packet returned
  cdPc,         \* "new" -> "built" -> ("cut" ->) "parsed"
  \* ---- SIYIMK15 receive loop (_response_listener) on a byte stream
  rxFirst,      \* first packet the device sends: [command, data]
  rxFlip,       \* 0, or the 1-based payload position corrupted on the line
  rxFlipVal,    \* the byte value found at that position after corruption
  rxTwo,        \* whether a second packet follows the first
  rxSecond,     \* the second packet: [command, data]
  rxWire,       \* bytes the device has sent that the port has not delivered
  rxBurst,      \* whether the whole stream is waiting at the first read
  rxBuffer,     \* the loop's local buffer
  rxLog,        \* the (command, data) pairs handed to _handle_response
  rxMismatch,   \* how many "Checksum mismatch" warnings were logged
  \* ---- JetsonCamera: frame_queue, the capture loop and one consumer
  camQueue,     \* frame_queue: capture timestamps, oldest first
  camNext,      \* timestamp the next successful camera.read() gets
  capPc,        \* capture loop: "read", "put", "evict", "reput"
  capFrame,     \* the frame the capture loop holds (0: none)
  capRetried,   \* a read failed since the capture loop last let go of a frame
  camNewest,    \* newest frame stored in frame_queue so far (0: none)
  camDropped,   \* frames the capture loop gave up without storing them
  consPc,       \* get_latest_frame: "idle", "drain", "ret"
  consFrame,    \* its local frame_data (0: None)
  consLast,     \* the frame the previous call returned (0: none yet)
  camStored,    \* frames stored since the last call returned: 0, 1, 2 (or more)
  camRaced,     \* whether the capture loop used the queue during the call
  \* ---- SIYIMK15: response_callbacks, send_command and _handle_response
  mkOpen,       \* the serial port is open and the loops run (self.running)
  mkFalse,      \* parity of the send_command calls that returned False
  mkTable,      \* response_callbacks: command id -> registration (0: absent)
  mkNextReg,    \* number the next registered callback gets
  mkSendPc,     \* send_command: "idle", "written"
  mkSendCmd,    \* command of the send_command in progress
  mkSendReg,    \* its callback (0: none)
  mkRequests,   \* requests the device has received: [cmd, req]
  mkWire,       \* responses sent by the device, not yet handled: [cmd, req]
  mkResponses,  \* how many responses the device has sent
  mkHPc,        \* _handle_response: "idle", "call", "del"
  mkHResp,      \* the response being handled
  mkCalls,      \* registration -> number of times the callback was invoked
  mkRaised,     \* registrations whose callback raised
  mkLog,        \* handled responses: [cmd, req, called]
  \* ---- StreamOrchestrator: the dispatch loop and its three sinks
  foPc,         \* "new", "failed", "tick", "link", "cloud", "monitor",
                \* "telemetry", "ended"
  foRunning,    \* self.running
  foSiyi,       \* self.siyi: "none", "down" (not connected), "up"
  foLivekit,    \* self.livekit: "none", "made", "started", "stopped"
  lkConnected,  \* LiveKitStreamer.connected
  lkStreaming,  \* LiveKitStreamer.streaming
  foWeb,        \* whether self.web_server exists
  foTicks,      \* frames the loop has taken from the camera
  foFrame,      \* the frame being dispatched, or dispatched last (0: none)
  foTasks,      \* send_frame coroutines queued on the session's event loop
  foLink,       \* frames sent on the video socket
  foTrack,      \* frames submitted to the video source
  foMonitor,    \* frames stored as WebServer.current_frame
  foTelemetry,  \* number of _update_telemetry calls
  foTelemTasks, \* send_telemetry coroutines queued on the session's event loop
  foTelemDue,   \* "off": self.telemetry is None; "wait"; "due": the telemetry
                \* interval has elapsed since last_telemetry_update
  foRecord,     \* the telemetry_data of the last _update_telemetry ({}: none)
  foEnded,      \* why _main_loop ended: "no", "stop", "exception"
  \* ---- JetsonStreamApplication.on_frame_received
  appFrame,     \* frames handed to on_frame_received
  appLast,      \* outcome of the last call
  \* ---- LiveKitStreamer: one session object and its coroutines
  stConnected,  \* LiveKitStreamer.connected
  stStreaming,  \* LiveKitStreamer.streaming
  stRoom,       \* whether self.room is set
  stSource,     \* whether self.video_source (and video_track) is set
  stConnPc,     \* connect(): "idle", "joining" (awaits room.connect)
  stStartPc,    \* start_streaming(): "idle", "publishing" (awaits publish_track)
  stStopPc,     \* stop_streaming(): "idle", "unpublishing"
  stDiscPc,     \* disconnect(): "idle", "unpublishing", "leaving"
  stConnCalls,  \* number of connect() calls
  stJoins,      \* number of room.connect attempts
  stSends,      \* number of send_frame() calls
  stSubmitted,  \* frames handed to video_source.capture_frame
  stLastSend,   \* what the last send_frame returned: "none", "true", "false"
  stLastConnect,\* what the last connect returned: "none", "true", "false"
  \* ---- JetsonTelemetry: the sampling loop and its observers
  tmMetrics,    \* self.metrics: the enabled metric groups
  tmRunning,    \* JetsonTelemetry.running
  tmPc,         \* _telemetry_loop: "idle", "check", "collect", "notify", "exited"
  tmCallbacks,  \* number of registered callbacks (callback i is the i-th)
  tmData,       \* current_data: the snapshot of the last tick, key -> value
  tmInputs,     \* what the collectors did in the last tick
  tmSnap,       \* which snapshot tmData is: ticks alternate between 0 and 1
  tmIdx,        \* position of the "for callback in self.callbacks" loop (0: no tick yet)
  tmAtStart,    \* number of callbacks registered when the tick was collected
  tmCalls,      \* callback -> number of calls in the current tick
  tmSeen,       \* callback -> the snapshot it was last called with
  tmRaised,     \* callbacks that raised in the current tick
  \* ---- threads of the components: connect/start, disconnect/stop and the loop threads
  lcRunning,    \* self.running of "mk15" (SIYIMK15), "camera", "telemetry"
  lcLoops,      \* loop -> number of threads inside that loop
  lcPort,       \* SIYIMK15.ser: "none", "open", "closed"
  lcCamera,     \* JetsonCamera.camera is an opened device
  lcConnected,  \* SIYIMKController.connected
  lcBeat,       \* parity of the HEARTBEAT commands tried by _heartbeat_loop
  lcBeatOk,     \* the last HEARTBEAT of _heartbeat_loop was written
  lcUdpBeat,    \* parity of the packets sent by SIYIMKController._send_heartbeat
  lcLast,       \* the last connect() or JetsonCamera.start(): who, what it returned
  \* ---- SIYIMKController.send_video_frame
  svPc,         \* send_video_frame: "idle", "sending", "done"
  svLen,        \* len(frame_data) of the frame of the last call
  svI,          \* the i of "for i in range(num_packets)"
  svSent,       \* the datagrams sent on video_socket for that frame, in order
  svRet,        \* what the last call returned: "none", "true", "false"
  \* ---- LiveKitStreamManager: start, stop and the background event loop
  mgRunning,    \* LiveKitStreamManager.running
  mgLoop,       \* the event loop of the manager: "none", "running", "stopped"
  mgStopping,   \* loop.stop() has been called on the event loop
  mgPc,         \* where run_streamer() is: "none", "start", "connect", "sleep", "leave", "done"
  mgReady,      \* the next step of run_streamer() is among the ready callbacks
  mgConnected,  \* streamer.connected of the manager's streamer
  mgQueued,     \* coroutines handed to the loop and not yet run
  mgStart,      \* what start() returned: "none", "waiting", "true", "false"
  mgStopPc,     \* where stop() is: "idle", "flagged", "done"
  \* ---- WebServer: update_frame, update_telemetry, _generate_frames, request_telemetry
  wsPc,         \* where each thread of the web server is: "main", "viewer", "client" -> position
  wsLock,       \* "frame_lock", "telemetry_lock" -> the thread that holds it, or "free"
  wsFrame,      \* current_frame: 0 for None, else the number of the frame
  wsTelemetry,  \* telemetry_data: 0 for {}, else the number of the record
  wsBuffer,     \* the JPEG the viewer thread has encoded: -1 none, 0 the blank frame
  wsSent,       \* what was last sent to a client: who sent it, what it was
  \* ---- _telemetry_loop: the timing of the ticks
  tkRate,       \* self.rate_hz
  tkPc,         \* _telemetry_loop: "start" (top of a pass), "sleep" (the work of the tick is done)
  tkTick,       \* number of ticks that have ended
  tkNow,        \* time.time(), in milliseconds since the loop started
  tkStart,      \* start_time of the tick
  tkElapsed,    \* elapsed of the last tick that ended
  tkSleep,      \* what the last time.sleep of the loop was called with
  \* ---- TelemetryHandler: update_from_siyi, get_telemetry, update_frame_rate
  thGps,        \* TelemetryHandler.include_gps
  thAttitude,   \* TelemetryHandler.include_attitude
  thStats,      \* TelemetryHandler.include_system_stats
  thTelemetry,  \* current_telemetry: field -> value (0 is 0.0)
  thPushed,     \* the record of the last update_from_siyi: key -> value
  thPushes      \* number of update_from_siyi calls

codecVars == <<cdCodec, cdCmd, cdPayload, cdWire, cdResult, cdPc>>

camVars == <<camQueue, camNext, capPc, capFrame, camNewest, camDropped,
             consPc, consFrame, consLast, camStored, camRaced, capRetried>>

mkVars == <<mkOpen, mkFalse,
           mkTable, mkNextReg, mkSendPc, mkSendCmd, mkSendReg,
            mkRequests, mkWire, mkResponses, mkHPc, mkHResp, mkCalls,
            mkRaised, mkLog>>

foVars == <<foPc, foRunning, foSiyi, foLivekit, lkConnected, lkStreaming,
            foWeb, foTicks, foFrame, foTasks, foLink, foTrack, foMonitor,
            foTelemetry, foTelemTasks, foEnded, appFrame, appLast,
           foTelemDue, foRecord>>

stVars == <<stConnected, stStreaming, stRoom, stSource, stConnPc,
            stStartPc, stStopPc, stDiscPc, stConnCalls, stJoins, stSends,
            stSubmitted, stLastSend, stLastConnect>>

tmVars == <<tmMetrics, tmRunning, tmPc, tmCallbacks, tmData, tmInputs,
            tmSnap, tmIdx, tmAtStart, tmCalls, tmSeen, tmRaised>>

lcVars == <<lcRunning, lcLoops, lcPort, lcCamera, lcConnected, lcBeat,
            lcBeatOk, lcUdpBeat, lcLast>>

svVars == <<svPc, svLen, svI, svSent, svRet>>

mgVars == <<mgRunning, mgLoop, mgStopping, mgPc, mgReady, mgConnected,
            mgQueued, mgStart, mgStopPc>>

wsVars == <<wsPc, wsLock, wsFrame, wsTelemetry, wsBuffer, wsSent>>

tkVars == <<tkRate, tkPc, tkTick, tkNow, tkStart, tkElapsed, tkSleep>>

thVars == <<thGps, thAttitude, thStats, thTelemetry, thPushed, thPushes>>

rxVars == <<rxFirst, rxFlip, rxFlipVal, rxTwo, rxSecond, rxWire, rxBurst,
            rxBuffer, rxLog, rxMismatch>>

----------------------------------------------------------------------------
(* Bounds of the model *)

\* longest payload drawn for a packet
MaxPayloadLen == 2

\* callbacks registered in one run
MaxRegistrations == 2

\* responses the device sends in one run
MaxResponses == 3

\* the largest encoded frame needs MaxFragments datagrams and one more
MaxFragments == 2

\* threads that may be inside one loop at the same time
MaxLoops == 2

\* callbacks registered with one JetsonTelemetry
MaxObservers == 2

\* connect() calls on one LiveKitStreamer in one run
MaxConnects == 2

\* send_frame() calls on one LiveKitStreamer in one run
MaxSends == 2

\* frames the dispatch loop handles in one run
MaxTicks == 2

\* frames the camera delivers in one run
MaxFrames == 32

\* most bytes one read of the serial port returns, unless it returns all
\* the bytes that are still to come
MaxChunk == 12

----------------------------------------------------------------------------
(* Bytes and byte strings *)

\* byte values payloads are drawn from: 0x00, 0x05, 0x55, 0xAA
ByteVals == {0, 5, 85, 170}

\* s[lo] + ... + s[hi], by halving (long strings do not nest deeply)
RECURSIVE SumRange(_, _, _)
SumRange(s, lo, hi) ==
  IF lo > hi THEN 0
  ELSE IF lo = hi THEN s[lo]
  ELSE LET mid == (lo + hi) \div 2
       IN SumRange(s, lo, mid) + SumRange(s, mid + 1, hi)

\* python sum(s) of a byte string
SumBytes(s) == SumRange(s, 1, Len(s))

\* python s[a:b] for 0 <= a, 0 <= b (0-based, end exclusive)
Slice(s, a, b) ==
  LET e == IF b > Len(s) THEN Len(s) ELSE b
  IN IF a >= e THEN <<>> ELSE SubSeq(s, a + 1, e)

\* python s[a:]
SliceFrom(s, a) == Slice(s, a, Len(s))

\* python s[a:-2]
SliceToLast2(s, a) == Slice(s, a, IF Len(s) >= 2 THEN Len(s) - 2 ELSE 0)

\* struct.pack('>H', x) and struct.pack('<H', x)
PackBE16(x) == <<x \div 256, x % 256>>
PackLE16(x) == <<x % 256, x \div 256>>

\* struct.unpack('>H', b)[0] and struct.unpack('<H', b)[0] of a 2-byte string
UnpackBE16(b) == (b[1] * 256) + b[2]
\* UnpackLE16 reading the two bytes in network order
UnpackLE16Swapped(b) == (b[1] * 256) + b[2]

UnpackLE16(b) == b[1] + (b[2] * 256)

RECURSIVE BitXor(_, _)
BitXor(a, b) ==
  IF a = 0 THEN b
  ELSE IF b = 0 THEN a
  ELSE (((a % 2) + (b % 2)) % 2) + (2 * BitXor(a \div 2, b \div 2))

\* result of a decode that returns None, with the branch that returned it
NoPacket(why) == [ok |-> FALSE, why |-> why, command |-> 0, data |-> <<>>]

\* result of a decode that returns (command, payload)
Packet(c, d) == [ok |-> TRUE, why |-> "ok", command |-> c, data |-> d]

----------------------------------------------------------------------------
(* SIYIProtocol: the UDP codec, CRC-16 *)

STX1 == 102
STX2 == 204

\* one round of the inner loop: if crc & 1: crc = (crc >> 1) ^ 0xA001 else crc >>= 1
CrcStep(crc) ==
  IF crc % 2 = 1 THEN BitXor(crc \div 2, 40961) ELSE crc \div 2

\* crc ^= byte, then the eight rounds of the inner loop
CrcByte(crc, byte) ==
  LET c0 == BitXor(crc, byte)
      c1 == CrcStep(c0)
      c2 == CrcStep(c1)
      c3 == CrcStep(c2)
      c4 == CrcStep(c3)
      c5 == CrcStep(c4)
      c6 == CrcStep(c5)
      c7 == CrcStep(c6)
  IN CrcStep(c7)

\* the loop over the bytes; the test on c makes TLC evaluate the running
\* value before it descends to the next byte
RECURSIVE CrcFold(_, _)
CrcFold(crc, data) ==
  IF data = <<>> THEN crc
  ELSE LET c == CrcByte(crc, Head(data))
       IN IF c \in Nat THEN CrcFold(c, Tail(data)) ELSE c

calc_crc16(data) == CrcFold(0, data)

SIYIProtocol_build_packet(cmd_id, data) ==
  LET header == <<STX1, STX2, 0>> \o PackLE16(Len(data)) \o PackLE16(0)
                \o <<cmd_id>>
      packet == header \o data
  IN packet \o PackLE16(calc_crc16(packet))

SIYIProtocol_parse_packet(data) ==
  IF Len(data) < 10 THEN NoPacket("short")
  ELSE IF data[1] # STX1 \/ data[2] # STX2 THEN NoPacket("header")
  ELSE LET data_len == UnpackLE16(Slice(data, 3, 5))
           cmd_id == data[8]
           expected_len == 8 + data_len + 2
       IN IF Len(data) < expected_len THEN NoPacket("short")
          ELSE LET payload == Slice(data, 8, 8 + data_len)
                   crc_received ==
                     UnpackLE16(Slice(data, 8 + data_len, 8 + data_len + 2))
                   crc_calculated == calc_crc16(Slice(data, 0, 8 + data_len))
               IN IF crc_received # crc_calculated THEN NoPacket("checksum")
                  ELSE Packet(cmd_id, payload)

----------------------------------------------------------------------------
(* SIYIMK15: the serial codec, additive checksum *)

MK15Header == 21930   \* 0x55AA

MK15_build_packet(command, data) ==
  LET length == Len(data) + 2
      packet == PackBE16(MK15Header) \o PackBE16(length) \o PackBE16(command)
                \o data
      checksum == SumBytes(SliceFrom(packet, 2)) % 65536
  IN packet \o PackBE16(checksum)

MK15_parse_packet(data) ==
  IF Len(data) < 8 THEN NoPacket("short")
  ELSE LET header == UnpackBE16(Slice(data, 0, 2))
           command == UnpackBE16(Slice(data, 4, 6))
       IN IF header # MK15Header THEN NoPacket("header")
          ELSE LET data_payload == SliceToLast2(data, 6)
                   received_checksum ==
                     UnpackBE16(SliceFrom(data, Len(data) - 2))
                   calculated_checksum ==
                     SumBytes(SliceToLast2(data, 2)) % 65536
               IN IF calculated_checksum # received_checksum
                  THEN NoPacket("checksum")
                  ELSE Packet(command, data_payload)

----------------------------------------------------------------------------
(* Inputs of the codec experiments *)

RECURSIVE SeqsUpTo(_, _)
SeqsUpTo(S, n) ==
  IF n = 0 THEN {<<>>}
  ELSE LET shorter == SeqsUpTo(S, n - 1)
       IN shorter \cup {Append(s, b) : s \in {t \in shorter : Len(t) = n - 1},
                                       b \in S}

Payloads == SeqsUpTo(ByteVals, MaxPayloadLen)

\* command ids within the 1-byte field of SIYIProtocol
Cmds8 == {0, 1, 13, 255}

\* command ids within the 2-byte field of SIYIMK15
Cmds16 == {0, 1, 49, 21930, 65535}

Encode(codec, c, p) ==
  IF codec = "SIYIProtocol" THEN SIYIProtocol_build_packet(c, p)
  ELSE MK15_build_packet(c, p)

Decode(codec, bytes) ==
  IF codec = "SIYIProtocol" THEN SIYIProtocol_parse_packet(bytes)
  ELSE MK15_parse_packet(bytes)

NotCodec == <<rxVars, camVars, mkVars, foVars, stVars, tmVars, lcVars, svVars, mgVars, wsVars, tkVars, thVars>>

CodecInit ==
  /\ cdCodec \in {"SIYIProtocol", "SIYIMK15"}
  /\ cdCmd \in (IF cdCodec = "SIYIProtocol" THEN Cmds8 ELSE Cmds16)
  /\ cdPayload \in Payloads
  /\ cdWire = <<>>
  /\ cdResult = NoPacket("none")
  /\ cdPc = "new"

CodecPark ==
  /\ cdCodec = "SIYIMK15"
  /\ cdCmd = 0
  /\ cdPayload = <<>>
  /\ cdWire = <<>>
  /\ cdResult = NoPacket("none")
  /\ cdPc = "parked"

\* encode(commandId, payload)
CodecBuild ==
  /\ cdPc = "new"
  /\ cdWire' = Encode(cdCodec, cdCmd, cdPayload)
  /\ cdPc' = "built"
  /\ UNCHANGED <<cdCodec, cdCmd, cdPayload, cdResult>>
  /\ UNCHANGED NotCodec

\* only the first k bytes of the packet have arrived
CodecTruncate ==
  /\ cdPc = "built"
  /\ \E k \in 0..(Len(cdWire) - 1) :
       cdWire' = Slice(cdWire, 0, k)
  /\ cdPc' = "cut"
  /\ UNCHANGED <<cdCodec, cdCmd, cdPayload, cdResult>>
  /\ UNCHANGED NotCodec

\* decode(buffer)
CodecParse ==
  /\ cdPc \in {"built", "cut", "hit"}
  /\ cdResult' = Decode(cdCodec, cdWire)
  /\ cdPc' = CASE cdPc = "built" -> "parsed"
               [] cdPc = "cut" -> "parsedcut"
               [] cdPc = "hit" -> "parsedhit"
  /\ UNCHANGED <<cdCodec, cdCmd, cdPayload, cdWire>>
  /\ UNCHANGED NotCodec

\* payloads that are, byte for byte, the CRC field of a SIYIProtocol packet
\* with no payload
CrcPayloads ==
  { PackLE16(calc_crc16(<<STX1, STX2, 0>> \o PackLE16(0) \o PackLE16(0)
                        \o <<c>>)) : c \in Cmds8 }

\* the values a byte of the packet is changed to
CorruptVals(old) ==
  (ByteVals \cup {(old + 1) % 256, BitXor(old, 128)}) \ {old}

\* the packets of the corruption experiment
CorruptInit ==
  /\ cdCodec \in {"SIYIProtocol", "SIYIMK15"}
  /\ cdCmd \in (IF cdCodec = "SIYIProtocol" THEN Cmds8 ELSE Cmds16)
  /\ cdPayload \in Payloads \cup CrcPayloads
  /\ cdWire = <<>>
  /\ cdResult = NoPacket("none")
  /\ cdPc = "new"

\* one byte of the packet arrives with another value
CodecCorrupt ==
  /\ cdPc = "built"
  /\ \E i \in 1..Len(cdWire) :
       \E v \in CorruptVals(cdWire[i]) :
         cdWire' = [cdWire EXCEPT ![i] = v]
  /\ cdPc' = "hit"
  /\ UNCHANGED <<cdCodec, cdCmd, cdPayload, cdResult>>
  /\ UNCHANGED NotCodec

----------------------------------------------------------------------------
(* SIYIMK15._response_listener: the receive loop over the serial port *)

\* buffer.find(b'\x55\xAA', 1): 0-based position of the first sync marker
\* at or after position 1, or -1
FindHeader(buffer) ==
  LET hits == {i \in 1..(Len(buffer) - 2) :
                 buffer[i + 1] = 85 /\ buffer[i + 2] = 170}
  IN IF hits = {} THEN -1
     ELSE CHOOSE i \in hits : \A j \in hits : i <= j

\* the inner loop "while len(buffer) >= 8": what is left of the buffer, the
\* packets handed to _handle_response and the checksum warnings logged
RECURSIVE ParseLoop(_, _, _)
ParseLoop(buffer, log, warned) ==
  IF Len(buffer) < 8 THEN [buffer |-> buffer, log |-> log, warned |-> warned]
  ELSE LET packet == MK15_parse_packet(buffer)
           w == IF packet.why = "checksum" THEN warned + 1 ELSE warned
           header_pos == FindHeader(buffer)
       IN IF packet.ok
          THEN ParseLoop(SliceFrom(buffer, 8 + Len(packet.data)),
                         Append(log, [command |-> packet.command,
                                      data |-> packet.data]),
                         w)
          ELSE IF header_pos > 0
               THEN ParseLoop(SliceFrom(buffer, header_pos), log, w)
               ELSE [buffer |-> buffer, log |-> log, warned |-> w]

\* s with the byte at 1-based position i replaced by v
SetByte(s, i, v) == [s EXCEPT ![i] = v]

\* a payload long enough for the 16-bit additive checksum to wrap:
\* 254 bytes 0xFF followed by 0xA2
WrapPayload == [i \in 1..255 |-> IF i < 255 THEN 255 ELSE 162]

FirstPackets ==
  {[command |-> 1, data |-> p] : p \in Payloads}

\* long packets are drawn only in runs where the whole stream is read at once
LongPackets == {[command |-> 49, data |-> WrapPayload]}

SecondPackets ==
  {[command |-> 2, data |-> p] : p \in SeqsUpTo(ByteVals, 1)}

\* the bytes the device puts on the line
RxStream(first, flip, val, two, second) ==
  LET p1 == MK15_build_packet(first.command, first.data)
      c1 == IF flip = 0 THEN p1 ELSE SetByte(p1, 6 + flip, val)
  IN IF two THEN c1 \o MK15_build_packet(second.command, second.data) ELSE c1

\* payload positions the line may corrupt
FlipPositions(p) == {i \in 1..Len(p) : i <= MaxPayloadLen}

RxInit ==
  /\ rxBurst \in BOOLEAN
  /\ rxFirst \in IF rxBurst THEN FirstPackets \cup LongPackets ELSE FirstPackets
  /\ rxFlip \in {0} \cup FlipPositions(rxFirst.data)
  /\ rxFlipVal \in IF rxFlip = 0 THEN {0}
                   ELSE ByteVals \ {rxFirst.data[rxFlip]}
  /\ rxTwo \in BOOLEAN
  /\ rxSecond \in IF rxTwo THEN SecondPackets
                  ELSE {[command |-> 0, data |-> <<>>]}
  /\ rxWire = RxStream(rxFirst, rxFlip, rxFlipVal, rxTwo, rxSecond)
  /\ rxBuffer = <<>>
  /\ rxLog = <<>>
  /\ rxMismatch = 0

RxPark ==
  /\ rxFirst = [command |-> 0, data |-> <<>>]
  /\ rxFlip = 0
  /\ rxFlipVal = 0
  /\ rxTwo = FALSE
  /\ rxSecond = [command |-> 0, data |-> <<>>]
  /\ rxWire = <<>>
  /\ rxBurst = FALSE
  /\ rxBuffer = <<>>
  /\ rxLog = <<>>
  /\ rxMismatch = 0

NotRx == <<codecVars, camVars, mkVars, foVars, stVars, tmVars, lcVars, svVars, mgVars, wsVars, tkVars, thVars>>

\* one pass of the loop with in_waiting = k > 0: read the k bytes, then parse
ListenerRead ==
  /\ rxWire # <<>>
  /\ \E k \in (IF rxBurst THEN {} ELSE 1..MaxChunk) \cup {Len(rxWire)} :
       /\ k <= Len(rxWire)
       /\ LET r == ParseLoop(rxBuffer \o Slice(rxWire, 0, k), rxLog, rxMismatch)
          IN /\ rxBuffer' = r.buffer
             /\ rxLog' = r.log
             /\ rxMismatch' = r.warned
       /\ rxWire' = SliceFrom(rxWire, k)
  /\ UNCHANGED <<rxFirst, rxFlip, rxFlipVal, rxTwo, rxSecond, rxBurst>>
  /\ UNCHANGED NotRx

----------------------------------------------------------------------------
(* JetsonCamera: the capture loop and get_latest_frame *)

\* queue.Queue(maxsize=30)
QueueMaxSize == 30

\* __init__ followed by start(): empty frame_queue, capture loop running
CamInit ==
  /\ camQueue = <<>>
  /\ camNext = 1
  /\ capPc = "read"
  /\ capFrame = 0
  /\ capRetried = FALSE
  /\ camNewest = 0
  /\ camDropped = {}
  /\ consPc = "idle"
  /\ consFrame = 0
  /\ consLast = 0
  /\ camStored = 0
  /\ camRaced = FALSE

NotCam == <<codecVars, rxVars, mkVars, foVars, stVars, tmVars, lcVars, svVars, mgVars, wsVars, tkVars, thVars>>

\* bookkeeping of a put_nowait that stored frame f
Stored(f) ==
  /\ camNewest' = f
  /\ camStored' = IF camStored >= 2 THEN 2 ELSE camStored + 1

\* bookkeeping of any queue operation of the capture loop
Raced == camRaced' = (camRaced \/ consPc \in {"drain", "ret"})

\* CaptureRead with a clock that steps back: a late frame gets an early time
CaptureReadClockBack ==
  /\ capPc = "read"
  /\ camNext <= MaxFrames
  /\ capFrame' = IF camNext > 2 THEN 1 ELSE camNext
  /\ camNext' = camNext + 1
  /\ capPc' = "put"
  /\ UNCHANGED <<camQueue, camNewest, camDropped, consPc, consFrame, consLast,
                 camStored, camRaced, capRetried>>
  /\ UNCHANGED NotCam

\* ret, frame = self.camera.read(): a frame, or a failed read (sleep,
\* continue); current_time = time.time() is the frame's timestamp, taken by
\* the one capture thread from a clock that does not step back
CaptureRead ==
  /\ capPc = "read"
  /\ camNext <= MaxFrames
  /\ \E ret \in BOOLEAN :
       IF ret
       THEN /\ capFrame' = camNext
            /\ camNext' = camNext + 1
            /\ capPc' = "put"
            /\ UNCHANGED capRetried
       ELSE /\ capRetried' = TRUE
            /\ UNCHANGED <<capFrame, camNext, capPc>>
  /\ UNCHANGED <<camQueue, camNewest, camDropped, consPc, consFrame, consLast,
                 camStored, camRaced>>
  /\ UNCHANGED NotCam

\* CapturePut with a queue that never reports queue.Full
CapturePutUnbounded ==
  /\ capPc = "put"
  /\ camQueue' = Append(camQueue, capFrame)
  /\ Stored(capFrame)
  /\ capFrame' = 0
  /\ capPc' = "read"
  /\ Raced
  /\ UNCHANGED <<camNext, camDropped, consPc, consFrame, consLast>>
  /\ capRetried' = (capRetried /\ capFrame' # 0)
  /\ UNCHANGED NotCam

\* self.frame_queue.put_nowait((frame, current_time)), or queue.Full
CapturePut ==
  /\ capPc = "put"
  /\ IF Len(camQueue) < QueueMaxSize
     THEN /\ camQueue' = Append(camQueue, capFrame)
          /\ Stored(capFrame)
          /\ capFrame' = 0
          /\ capPc' = "read"
     ELSE /\ capPc' = "evict"
          /\ UNCHANGED <<camQueue, capFrame, camNewest, camStored>>
  /\ Raced
  /\ UNCHANGED <<camNext, camDropped, consPc, consFrame, consLast>>
  /\ capRetried' = (capRetried /\ capFrame' # 0)
  /\ UNCHANGED NotCam

\* except queue.Full: self.frame_queue.get_nowait(); queue.Empty is swallowed
\* by the bare except and the frame in hand is given up
CaptureEvict ==
  /\ capPc = "evict"
  /\ IF camQueue # <<>>
     THEN /\ camQueue' = Tail(camQueue)
          /\ capPc' = "reput"
          /\ UNCHANGED <<capFrame, camDropped>>
     ELSE /\ camDropped' = camDropped \cup {capFrame}
          /\ capFrame' = 0
          /\ capPc' = "read"
          /\ UNCHANGED camQueue
  /\ Raced
  /\ UNCHANGED <<camNext, camNewest, consPc, consFrame, consLast, camStored>>
  /\ capRetried' = (capRetried /\ capFrame' # 0)
  /\ UNCHANGED NotCam

\* the second put_nowait, inside the same bare except
CaptureReput ==
  /\ capPc = "reput"
  /\ IF Len(camQueue) < QueueMaxSize
     THEN /\ camQueue' = Append(camQueue, capFrame)
          /\ Stored(capFrame)
          /\ UNCHANGED camDropped
     ELSE /\ camDropped' = camDropped \cup {capFrame}
          /\ UNCHANGED <<camQueue, camNewest, camStored>>
  /\ Raced
  /\ capFrame' = 0
  /\ capPc' = "read"
  /\ UNCHANGED <<camNext, consPc, consFrame, consLast>>
  /\ capRetried' = (capRetried /\ capFrame' # 0)
  /\ UNCHANGED NotCam

\* get_latest_frame() is called: frame_data = None
ConsumerCall ==
  /\ consPc = "idle"
  /\ consPc' = "drain"
  /\ consFrame' = 0
  /\ camRaced' = FALSE
  /\ UNCHANGED <<camQueue, camNext, capPc, capFrame, camNewest, camDropped,
                 consLast, camStored>>
  /\ UNCHANGED capRetried
  /\ UNCHANGED NotCam

\* ConsumerGet that returns the first frame it gets, as read() does
ConsumerGetOldest ==
  /\ consPc = "drain"
  /\ IF camQueue # <<>>
     THEN /\ consFrame' = Head(camQueue)
          /\ camQueue' = Tail(camQueue)
     ELSE UNCHANGED <<consFrame, camQueue>>
  /\ consPc' = "ret"
  /\ UNCHANGED <<camNext, capPc, capFrame, camNewest, camDropped, consLast,
                 camStored, camRaced>>
  /\ UNCHANGED capRetried
  /\ UNCHANGED NotCam

\* one pass of "while True": frame_data = get_nowait(), or queue.Empty: break
ConsumerGet ==
  /\ consPc = "drain"
  /\ IF camQueue # <<>>
     THEN /\ consFrame' = Head(camQueue)
          /\ camQueue' = Tail(camQueue)
          /\ UNCHANGED consPc
     ELSE /\ consPc' = "ret"
          /\ UNCHANGED <<consFrame, camQueue>>
  /\ UNCHANGED <<camNext, capPc, capFrame, camNewest, camDropped, consLast,
                 camStored, camRaced>>
  /\ UNCHANGED capRetried
  /\ UNCHANGED NotCam

\* return frame_data
ConsumerReturn ==
  /\ consPc = "ret"
  /\ consPc' = "idle"
  /\ consLast' = IF consFrame # 0 THEN consFrame ELSE consLast
  /\ consFrame' = 0
  /\ camStored' = 0
  /\ camRaced' = FALSE
  /\ UNCHANGED <<camQueue, camNext, capPc, capFrame, camNewest, camDropped>>
  /\ UNCHANGED capRetried
  /\ UNCHANGED NotCam

----------------------------------------------------------------------------
(* SIYIMK15: send_command, the device, and _handle_response *)

\* command ids used with a callback: GENERAL_REQUEST, TELEMETRY_REQUEST
MkCommands == {16, 48}

NoResponse == [cmd |-> 0, req |-> 0]

\* __init__: ser = None, running = False, response_callbacks = {}
MkInit ==
  /\ mkOpen = FALSE
  /\ mkFalse = 0
  /\ mkTable = [c \in MkCommands |-> 0]
  /\ mkNextReg = 1
  /\ mkSendPc = "idle"
  /\ mkSendCmd = 0
  /\ mkSendReg = 0
  /\ mkRequests = {}
  /\ mkWire = <<>>
  /\ mkResponses = 0
  /\ mkHPc = "idle"
  /\ mkHResp = NoResponse
  /\ mkCalls = [r \in 1..MaxRegistrations |-> 0]
  /\ mkRaised = {}
  /\ mkLog = <<>>

NotMk == <<codecVars, rxVars, camVars, foVars, stVars, tmVars, lcVars, svVars, mgVars, wsVars, tkVars, thVars>>

\* connect(): opens the port, sets running and starts the two loops
MkConnect ==
  /\ ~mkOpen
  /\ \E opened \in BOOLEAN : mkOpen' = opened
  /\ UNCHANGED <<mkTable, mkNextReg, mkSendPc, mkSendCmd, mkSendReg,
                 mkRequests, mkWire, mkResponses, mkHPc, mkHResp, mkCalls,
                 mkRaised, mkLog>>
  /\ UNCHANGED mkFalse
  /\ UNCHANGED NotMk

\* disconnect(): running = False, ser.close(); the table is left as it is
MkDisconnect ==
  /\ mkOpen
  /\ mkOpen' = FALSE
  /\ UNCHANGED <<mkTable, mkNextReg, mkSendPc, mkSendCmd, mkSendReg,
                 mkRequests, mkWire, mkResponses, mkHPc, mkHResp, mkCalls,
                 mkRaised, mkLog>>
  /\ UNCHANGED mkFalse
  /\ UNCHANGED NotMk

\* SendWrite with the callback put in the table before the port is tested
\* and the packet written
SendWriteRegisterFirst ==
  /\ mkSendPc = "idle"
  /\ \E c \in MkCommands, withCallback \in BOOLEAN, written \in BOOLEAN :
       /\ withCallback => mkNextReg <= MaxRegistrations
       /\ LET reg == IF withCallback THEN mkNextReg ELSE 0
          IN /\ mkTable' = IF withCallback THEN [mkTable EXCEPT ![c] = reg]
                           ELSE mkTable
             /\ mkNextReg' = IF withCallback THEN mkNextReg + 1 ELSE mkNextReg
             /\ IF mkOpen /\ written
                THEN /\ mkRequests' = mkRequests \cup {[cmd |-> c, req |-> reg]}
                     /\ UNCHANGED mkFalse
                ELSE /\ mkFalse' = 1 - mkFalse
                     /\ UNCHANGED mkRequests
  /\ UNCHANGED <<mkOpen, mkSendPc, mkSendCmd, mkSendReg, mkWire, mkResponses,
                 mkHPc, mkHResp, mkCalls, mkRaised, mkLog>>
  /\ UNCHANGED NotMk

\* send_command up to and including self.ser.write(packet).  With the port
\* absent or closed it returns False; a write that raises returns False as
\* well, from the except clause, before the callback is looked at.
SendWrite ==
  /\ mkSendPc = "idle"
  /\ \E c \in MkCommands, withCallback \in BOOLEAN, written \in BOOLEAN :
       /\ withCallback => mkNextReg <= MaxRegistrations
       /\ IF mkOpen /\ written
          THEN LET reg == IF withCallback THEN mkNextReg ELSE 0
               IN /\ mkRequests' = mkRequests \cup {[cmd |-> c, req |-> reg]}
                  /\ IF withCallback
                     THEN /\ mkSendPc' = "written"
                          /\ mkSendCmd' = c
                          /\ mkSendReg' = reg
                          /\ mkNextReg' = mkNextReg + 1
                     ELSE UNCHANGED <<mkSendPc, mkSendCmd, mkSendReg,
                                      mkNextReg>>
                  /\ UNCHANGED mkFalse
          ELSE /\ mkFalse' = 1 - mkFalse
               /\ UNCHANGED <<mkRequests, mkSendPc, mkSendCmd, mkSendReg,
                              mkNextReg>>
  /\ UNCHANGED <<mkOpen, mkTable, mkWire, mkResponses, mkHPc, mkHResp,
                 mkCalls, mkRaised, mkLog>>
  /\ UNCHANGED NotMk

\* send_command: self.response_callbacks[command.value] = callback
SendRegister ==
  /\ mkSendPc = "written"
  /\ mkTable' = [mkTable EXCEPT ![mkSendCmd] = mkSendReg]
  /\ mkSendPc' = "idle"
  /\ mkSendCmd' = 0
  /\ mkSendReg' = 0
  /\ UNCHANGED <<mkOpen, mkNextReg, mkRequests, mkWire, mkResponses, mkHPc,
                 mkHResp, mkCalls, mkRaised, mkLog>>
  /\ UNCHANGED mkFalse
  /\ UNCHANGED NotMk

\* the device answers a request it has received (possibly more than once)
\* with a response carrying the request's command id
DeviceRespond ==
  /\ mkResponses < MaxResponses
  /\ \E r \in mkRequests :
       mkWire' = Append(mkWire, r)
  /\ mkResponses' = mkResponses + 1
  /\ UNCHANGED <<mkOpen, mkTable, mkNextReg, mkSendPc, mkSendCmd, mkSendReg,
                 mkRequests, mkHPc, mkHResp, mkCalls, mkRaised, mkLog>>
  /\ UNCHANGED mkFalse
  /\ UNCHANGED NotMk

\* _handle_response: "if command in self.response_callbacks"
HandleCheck ==
  /\ mkOpen
  /\ mkHPc = "idle"
  /\ mkWire # <<>>
  /\ mkWire' = Tail(mkWire)
  /\ IF mkTable[Head(mkWire).cmd] # 0
     THEN /\ mkHPc' = "call"
          /\ mkHResp' = Head(mkWire)
          /\ UNCHANGED mkLog
     ELSE /\ mkLog' = Append(mkLog, [cmd |-> Head(mkWire).cmd,
                                     req |-> Head(mkWire).req,
                                     called |-> 0])
          /\ UNCHANGED <<mkHPc, mkHResp>>
  /\ UNCHANGED <<mkOpen, mkTable, mkNextReg, mkSendPc, mkSendCmd, mkSendReg,
                 mkRequests, mkResponses, mkCalls, mkRaised>>
  /\ UNCHANGED mkFalse
  /\ UNCHANGED NotMk

\* _handle_response: self.response_callbacks[command](data), which may raise
HandleCall ==
  /\ mkHPc = "call"
  /\ LET reg == mkTable[mkHResp.cmd]
     IN /\ mkCalls' = [mkCalls EXCEPT ![reg] = @ + 1]
        /\ \E raised \in BOOLEAN :
             mkRaised' = IF raised THEN mkRaised \cup {reg} ELSE mkRaised
        /\ mkLog' = Append(mkLog, [cmd |-> mkHResp.cmd, req |-> mkHResp.req,
                                   called |-> reg])
  /\ mkHPc' = "del"
  /\ UNCHANGED <<mkOpen, mkTable, mkNextReg, mkSendPc, mkSendCmd, mkSendReg,
                 mkRequests, mkWire, mkResponses, mkHResp>>
  /\ UNCHANGED mkFalse
  /\ UNCHANGED NotMk

\* HandleDel without the del
HandleDelKeep ==
  /\ mkHPc = "del"
  /\ mkHPc' = "idle"
  /\ mkHResp' = NoResponse
  /\ UNCHANGED <<mkOpen, mkTable, mkNextReg, mkSendPc, mkSendCmd, mkSendReg,
                 mkRequests, mkWire, mkResponses, mkCalls, mkRaised, mkLog>>
  /\ UNCHANGED mkFalse
  /\ UNCHANGED NotMk

\* _handle_response: "finally: del self.response_callbacks[command]"
HandleDel ==
  /\ mkHPc = "del"
  /\ mkTable' = [mkTable EXCEPT ![mkHResp.cmd] = 0]
  /\ mkHPc' = "idle"
  /\ mkHResp' = NoResponse
  /\ UNCHANGED <<mkOpen, mkNextReg, mkSendPc, mkSendCmd, mkSendReg,
                 mkRequests, mkWire, mkResponses, mkCalls, mkRaised, mkLog>>
  /\ UNCHANGED mkFalse
  /\ UNCHANGED NotMk

----------------------------------------------------------------------------
(* JetsonTelemetry: the snapshot that _collect_telemetry builds             *)

\* a dict is a function from its keys: the same value under every key of
\* a set; {} is DictOf({}, v)
DictOf(keys, value) == [k \in keys |-> value]

\* d1.update(d2)
DictUpdate(d1, d2) == d2 @@ d1

\* the keys a snapshot has when the collectors of a metric group work
MetricKeys(metric) ==
  CASE metric = "cpu_usage" ->
         {"cpu_usage_percent", "cpu_per_core", "cpu_count"}
    [] metric = "memory_usage" ->
         {"memory_total_mb", "memory_used_mb", "memory_percent",
          "swap_total_mb", "swap_used_mb", "swap_percent"}
    [] metric = "gpu_usage" -> {"gpu_usage_percent", "gpu_available"}
    [] metric = "temperature" -> {"temperatures"}
    [] metric = "network_stats" ->
         {"bytes_sent_mb", "bytes_recv_mb", "packets_sent", "packets_recv",
          "errors_in", "errors_out"}
    [] metric = "camera_fps" -> {"camera_fps", "stream_fps"}

\* the default of config.get('metrics', [...])
AllMetrics == {"cpu_usage", "memory_usage", "gpu_usage", "temperature",
               "network_stats", "camera_fps"}

\* _get_cpu_usage: the measured values, or {} when psutil raises
get_cpu_usage(outcome) ==
  IF outcome = "ok" THEN DictOf(MetricKeys("cpu_usage"), "measured")
  ELSE DictOf({}, "none")

\* _get_memory_usage: the measured values, or {} when psutil raises
get_memory_usage(outcome) ==
  IF outcome = "ok" THEN DictOf(MetricKeys("memory_usage"), "measured")
  ELSE DictOf({}, "none")

\* _get_gpu_usage: measured; 0 / False / a note when tegrastats is missing
\* or times out; {} when anything else raises
get_gpu_usage(outcome) ==
  CASE outcome = "ok" -> DictOf(MetricKeys("gpu_usage"), "measured")
    [] outcome = "unavailable" -> DictOf(MetricKeys("gpu_usage") \cup {"note"}, "default")
    [] OTHER -> DictOf({}, "none")

\* _get_temperature: the readings; {'cpu_thermal': 0.0} when there is none;
\* {} when reading raises
get_temperature(outcome) ==
  CASE outcome = "ok" -> "measured"
    [] outcome = "unavailable" -> "default"
    [] OTHER -> "empty"

\* _get_network_stats: the measured values, or {} when psutil raises
get_network_stats(outcome) ==
  IF outcome = "ok" THEN DictOf(MetricKeys("network_stats"), "measured")
  ELSE DictOf({}, "none")

\* _collect_telemetry for the enabled metrics and the collectors' outcomes
collect_telemetry(metrics, o) ==
  LET d0 == DictOf({"timestamp", "device"}, "measured")
      d1 == IF "cpu_usage" \in metrics
            THEN DictUpdate(d0, get_cpu_usage(o.cpu)) ELSE d0
      d2 == IF "memory_usage" \in metrics
            THEN DictUpdate(d1, get_memory_usage(o.memory)) ELSE d1
      d3 == IF "gpu_usage" \in metrics
            THEN DictUpdate(d2, get_gpu_usage(o.gpu)) ELSE d2
      d4 == IF "temperature" \in metrics
            THEN DictUpdate(d3, DictOf({"temperatures"},
                                       get_temperature(o.temperature)))
            ELSE d3
      d5 == IF "network_stats" \in metrics
            THEN DictUpdate(d4, get_network_stats(o.network)) ELSE d4
  IN IF "camera_fps" \in metrics
     THEN DictUpdate(d5, DictOf(MetricKeys("camera_fps"), "measured")) ELSE d5

----------------------------------------------------------------------------
(* StreamOrchestrator: _initialize_components, _main_loop, _process_frame,  *)
(* and the sinks it forwards to                                             *)

NoCall == [frame |-> 0, web |-> FALSE, raised |-> FALSE, track |-> FALSE,
           monitor |-> FALSE]

\* __init__: every component is None, running = False
FoInit ==
  /\ foPc = "new"
  /\ foRunning = FALSE
  /\ foSiyi = "none"
  /\ foLivekit = "none"
  /\ lkConnected = FALSE
  /\ lkStreaming = FALSE
  /\ foWeb = FALSE
  /\ foTicks = 0
  /\ foFrame = 0
  /\ foTasks = <<>>
  /\ foLink = {}
  /\ foTrack = {}
  /\ foMonitor = {}
  /\ foTelemetry = 0
  /\ foTelemTasks = 0
  /\ foTelemDue = "off"
  /\ foRecord = DictOf({}, "none")
  /\ foEnded = "no"
  /\ appFrame = 0
  /\ appLast = NoCall

NotFo == <<codecVars, rxVars, camVars, mkVars, stVars, tmVars, lcVars, svVars, mgVars, wsVars, tkVars, thVars>>

\* start(): _initialize_components(), then running = True.  The camera may
\* fail to open; each sink is enabled or not by the configuration; a failed
\* siyi.connect() leaves self.siyi set with connected = False.
InitializeComponents ==
  /\ foPc = "new"
  /\ appFrame = 0
  /\ \E cameraOpened \in BOOLEAN, siyi \in {"none", "down", "up"},
        livekit \in {"none", "made"}, telemetry \in BOOLEAN,
        web \in BOOLEAN :
       IF cameraOpened
       THEN /\ foSiyi' = siyi
            /\ foLivekit' = livekit
            /\ foTelemDue' = IF telemetry THEN "wait" ELSE "off"
            /\ foWeb' = web
            /\ foRunning' = TRUE
            /\ foPc' = "tick"
       ELSE /\ foPc' = "failed"
            /\ UNCHANGED <<foSiyi, foLivekit, foTelemDue, foWeb, foRunning>>
  /\ UNCHANGED <<lkConnected, lkStreaming, foTicks, foFrame, foTasks, foLink,
                 foTrack, foMonitor, foTelemetry, foEnded, appFrame, appLast,
                 foTelemTasks, foRecord>>
  /\ UNCHANGED NotFo

\* LiveKitStreamManager.start(): creates the loop and the streamer and runs
\* streamer.connect() on the loop
LiveKitStart ==
  /\ foLivekit = "made"
  /\ foLivekit' = "started"
  /\ \E joined \in BOOLEAN : lkConnected' = joined
  /\ UNCHANGED <<foPc, foRunning, foSiyi, lkStreaming, foWeb, foTicks,
                 foFrame, foTasks, foLink, foTrack, foMonitor, foTelemetry,
                 foEnded, appFrame, appLast,
                 foTelemTasks>>
  /\ UNCHANGED <<foTelemDue, foRecord>>
  /\ UNCHANGED NotFo

\* LiveKitStreamer.start_streaming(): refused unless connected; streaming
\* becomes True when publish_track succeeds
StartStreaming ==
  /\ foLivekit = "started"
  /\ ~lkStreaming
  /\ \E published \in BOOLEAN :
       lkStreaming' = (lkConnected /\ published)
  /\ UNCHANGED <<foPc, foRunning, foSiyi, foLivekit, lkConnected, foWeb,
                 foTicks, foFrame, foTasks, foLink, foTrack, foMonitor,
                 foTelemetry, foEnded, appFrame, appLast,
                 foTelemTasks>>
  /\ UNCHANGED <<foTelemDue, foRecord>>
  /\ UNCHANGED NotFo

\* _main_loop: "while self.running", frame_data = camera.get_latest_frame()
MainLoopTick ==
  /\ foPc = "tick"
  /\ IF ~foRunning
     THEN /\ foPc' = "ended"
          /\ foEnded' = "stop"
          /\ UNCHANGED <<foTicks, foFrame>>
     ELSE /\ \E gotFrame \in BOOLEAN :
               IF gotFrame /\ foTicks < MaxTicks
               THEN /\ foTicks' = foTicks + 1
                    /\ foFrame' = foTicks + 1
                    /\ foPc' = "link"
               ELSE UNCHANGED <<foTicks, foFrame, foPc>>
          /\ UNCHANGED foEnded
  /\ UNCHANGED <<foRunning, foSiyi, foLivekit, lkConnected, lkStreaming,
                 foWeb, foTasks, foLink, foTrack, foMonitor, foTelemetry,
                 appFrame, appLast,
                 foTelemTasks>>
  /\ UNCHANGED <<foTelemDue, foRecord>>
  /\ UNCHANGED NotFo

\* ProcessFrameLink that does not look at siyi.connected
ProcessFrameLinkAlways ==
  /\ foPc = "link"
  /\ IF foSiyi # "none"
     THEN foLink' = foLink \cup {foFrame}
     ELSE UNCHANGED foLink
  /\ foPc' = "cloud"
  /\ UNCHANGED <<foRunning, foSiyi, foLivekit, lkConnected, lkStreaming,
                 foWeb, foTicks, foFrame, foTasks, foTrack, foMonitor,
                 foTelemetry, foEnded, appFrame, appLast,
                 foTelemTasks>>
  /\ UNCHANGED <<foTelemDue, foRecord>>
  /\ UNCHANGED NotFo

\* _process_frame: "if self.siyi and self.siyi.connected:
\* self.siyi.send_video_frame(frame)"; send_video_frame returns False when
\* not connected and catches what the encoder or the socket raises
ProcessFrameLink ==
  /\ foPc = "link"
  /\ IF foSiyi = "up"
     THEN \E sent \in BOOLEAN :
            foLink' = IF sent THEN foLink \cup {foFrame} ELSE foLink
     ELSE UNCHANGED foLink
  /\ foPc' = "cloud"
  /\ UNCHANGED <<foRunning, foSiyi, foLivekit, lkConnected, lkStreaming,
                 foWeb, foTicks, foFrame, foTasks, foTrack, foMonitor,
                 foTelemetry, foEnded, appFrame, appLast,
                 foTelemTasks>>
  /\ UNCHANGED <<foTelemDue, foRecord>>
  /\ UNCHANGED NotFo

\* ProcessFrameCloud that runs streamer.send_frame itself
ProcessFrameCloudInline ==
  /\ foPc = "cloud"
  /\ IF foLivekit \in {"started", "stopped"} /\ lkStreaming
     THEN foTrack' = foTrack \cup {foFrame}
     ELSE UNCHANGED foTrack
  /\ foPc' = "monitor"
  /\ UNCHANGED <<foRunning, foSiyi, foLivekit, lkConnected, lkStreaming,
                 foWeb, foTicks, foFrame, foTasks, foLink, foMonitor,
                 foTelemetry, foTelemTasks, foEnded, appFrame, appLast>>
  /\ UNCHANGED <<foTelemDue, foRecord>>
  /\ UNCHANGED NotFo

\* _process_frame: "if self.livekit: self.livekit.send_frame(frame)";
\* LiveKitStreamManager.send_frame returns False without loop or streamer,
\* otherwise queues streamer.send_frame(frame) on the loop and catches what
\* the hand-off raises
ProcessFrameCloud ==
  /\ foPc = "cloud"
  /\ IF foLivekit \in {"started", "stopped"}
     THEN \E queued \in BOOLEAN :
            foTasks' = IF queued THEN Append(foTasks, foFrame) ELSE foTasks
     ELSE UNCHANGED foTasks
  /\ foPc' = "monitor"
  /\ UNCHANGED <<foRunning, foSiyi, foLivekit, lkConnected, lkStreaming,
                 foWeb, foTicks, foFrame, foLink, foTrack, foMonitor,
                 foTelemetry, foEnded, appFrame, appLast,
                 foTelemTasks>>
  /\ UNCHANGED <<foTelemDue, foRecord>>
  /\ UNCHANGED NotFo

\* _process_frame: "if self.web_server: self.web_server.update_frame(frame)".
\* update_frame has no handler of its own: what frame.copy() raises leaves
\* _process_frame and reaches "except Exception" of _main_loop, which is
\* outside the while loop.
ProcessFrameMonitor ==
  /\ foPc = "monitor"
  /\ IF foWeb
     THEN \E raised \in BOOLEAN :
            IF raised
            THEN /\ foPc' = "ended"
                 /\ foEnded' = "exception"
                 /\ UNCHANGED foMonitor
            ELSE /\ foMonitor' = foMonitor \cup {foFrame}
                 /\ foPc' = "telemetry"
                 /\ UNCHANGED foEnded
     ELSE /\ foPc' = "telemetry"
          /\ UNCHANGED <<foMonitor, foEnded>>
  /\ UNCHANGED <<foRunning, foSiyi, foLivekit, lkConnected, lkStreaming,
                 foWeb, foTicks, foFrame, foTasks, foLink, foTrack,
                 foTelemetry, appFrame, appLast,
                 foTelemTasks>>
  /\ UNCHANGED <<foTelemDue, foRecord>>
  /\ UNCHANGED NotFo

\* time passes: telemetry_interval has elapsed since last_telemetry_update
IntervalElapses ==
  /\ foTelemDue = "wait"
  /\ foPc \notin {"new", "failed", "ended"}
  /\ foTelemDue' = "due"
  /\ UNCHANGED <<foPc, foRunning, foSiyi, foLivekit, lkConnected,
                 lkStreaming, foWeb, foTicks, foFrame, foTasks, foLink,
                 foTrack, foMonitor, foTelemetry, foTelemTasks, foRecord,
                 foEnded, appFrame, appLast>>
  /\ UNCHANGED NotFo

\* what telemetry.get_current_data() may return: {} before the first tick of
\* the sampling loop, else the last snapshot, for the default metrics or for
\* a configuration without 'camera_fps'
CurrentData ==
  LET ok == [cpu |-> "ok", memory |-> "ok", gpu |-> "ok",
             temperature |-> "ok", network |-> "ok"]
  IN { DictOf({}, "none"),
       collect_telemetry(AllMetrics, ok),
       collect_telemetry({"cpu_usage", "temperature"}, ok) }

\* _update_telemetry: telemetry_data = get_current_data() with
\* 'siyi_connected' and 'livekit_connected' added
TelemetryRecord(data, siyi, connected) ==
  DictUpdate(data,
             [k \in {"siyi_connected", "livekit_connected"} |->
                IF k = "siyi_connected"
                THEN (IF siyi = "up" THEN "true" ELSE "false")
                ELSE (IF connected THEN "true" ELSE "false")])

\* _main_loop, after _process_frame: _update_telemetry() when the telemetry
\* interval has elapsed (it returns at once without a telemetry collector);
\* "if self.livekit: self.livekit.send_telemetry(telemetry_data)" queues
\* streamer.send_telemetry on the loop, when there is one, and returns
MainLoopTelemetry ==
  /\ foPc = "telemetry"
  /\ IF foTelemDue = "due"
     THEN \E data \in CurrentData, queued \in BOOLEAN :
            /\ foTelemetry' = foTelemetry + 1
            /\ foRecord' = TelemetryRecord(data, foSiyi, lkConnected)
            /\ foTelemTasks' =
                 IF foLivekit \in {"started", "stopped"} /\ queued
                 THEN foTelemTasks + 1 ELSE foTelemTasks
            /\ foTelemDue' = "wait"
     ELSE UNCHANGED <<foTelemetry, foRecord, foTelemTasks, foTelemDue>>
  /\ foPc' = "tick"
  /\ UNCHANGED <<foRunning, foSiyi, foLivekit, lkConnected, lkStreaming,
                 foWeb, foTicks, foFrame, foTasks, foLink, foTrack,
                 foMonitor, foEnded, appFrame, appLast>>
  /\ UNCHANGED NotFo

\* the session's event loop runs a queued LiveKitStreamer.send_telemetry
LoopRunSendTelemetry ==
  /\ foLivekit = "started"
  /\ foTelemTasks > 0
  /\ foTelemTasks' = foTelemTasks - 1
  /\ UNCHANGED <<foPc, foRunning, foSiyi, foLivekit, lkConnected,
                 lkStreaming, foWeb, foTicks, foFrame, foTasks, foLink,
                 foTrack, foMonitor, foTelemetry, foEnded, appFrame, appLast>>
  /\ UNCHANGED <<foTelemDue, foRecord>>
  /\ UNCHANGED NotFo

\* the session's event loop runs a queued LiveKitStreamer.send_frame(frame):
\* nothing is submitted unless streaming; capture_frame may raise (caught)
LoopRunSendFrame ==
  /\ foLivekit = "started"
  /\ foTasks # <<>>
  /\ foTasks' = Tail(foTasks)
  /\ IF lkStreaming
     THEN \E captured \in BOOLEAN :
            foTrack' = IF captured THEN foTrack \cup {Head(foTasks)}
                                   ELSE foTrack
     ELSE UNCHANGED foTrack
  /\ UNCHANGED <<foPc, foRunning, foSiyi, foLivekit, lkConnected,
                 lkStreaming, foWeb, foTicks, foFrame, foLink, foMonitor,
                 foTelemetry, foEnded, appFrame, appLast,
                 foTelemTasks>>
  /\ UNCHANGED <<foTelemDue, foRecord>>
  /\ UNCHANGED NotFo

\* stop(): running = False, livekit.stop() stops the loop,
\* siyi.disconnect() clears connected
OrchestratorStop ==
  /\ foRunning
  /\ foRunning' = FALSE
  /\ foLivekit' = IF foLivekit = "started" THEN "stopped" ELSE foLivekit
  /\ foSiyi' = IF foSiyi = "up" THEN "down" ELSE foSiyi
  /\ UNCHANGED <<foPc, lkConnected, lkStreaming, foWeb, foTicks, foFrame,
                 foTasks, foLink, foTrack, foMonitor, foTelemetry, foEnded,
                 appFrame, appLast,
                 foTelemTasks>>
  /\ UNCHANGED <<foTelemDue, foRecord>>
  /\ UNCHANGED NotFo

\* JetsonStreamApplication.on_frame_received(frame): one try block around
\* the LiveKit send and the web UI update
OnFrameReceived ==
  /\ foPc = "new"
  /\ appFrame < MaxTicks
  /\ appFrame' = appFrame + 1
  /\ \E livekitReady \in BOOLEAN, sendRaises \in BOOLEAN, web \in BOOLEAN,
        updateRaises \in BOOLEAN :
       LET raised == livekitReady /\ sendRaises
       IN appLast' = [frame |-> appFrame + 1,
                      web |-> web,
                      raised |-> raised,
                      track |-> livekitReady /\ ~sendRaises,
                      monitor |-> ~raised /\ web /\ ~updateRaises]
  /\ UNCHANGED <<foPc, foRunning, foSiyi, foLivekit, lkConnected,
                 lkStreaming, foWeb, foTicks, foFrame, foTasks, foLink,
                 foTrack, foMonitor, foTelemetry, foTelemTasks, foEnded>>
  /\ UNCHANGED <<foTelemDue, foRecord>>
  /\ UNCHANGED NotFo

----------------------------------------------------------------------------
(* LiveKitStreamer: connect, start_streaming, send_frame, stop_streaming,    *)
(* disconnect.  The coroutines run on one event loop and interleave at      *)
(* their await points.                                                      *)

\* __init__: room = None, video_source = None, connected = streaming = False
StInit ==
  /\ stConnected = FALSE
  /\ stStreaming = FALSE
  /\ stRoom = FALSE
  /\ stSource = FALSE
  /\ stConnPc = "idle"
  /\ stStartPc = "idle"
  /\ stStopPc = "idle"
  /\ stDiscPc = "idle"
  /\ stConnCalls = 0
  /\ stJoins = 0
  /\ stSends = 0
  /\ stSubmitted = 0
  /\ stLastSend = "none"
  /\ stLastConnect = "none"

NotSt == <<codecVars, camVars, mkVars, foVars, rxVars, tmVars, lcVars, svVars, mgVars, wsVars, tkVars, thVars>>

\* connect() up to "await self.room.connect(url, jwt_token)": the room is
\* created, then the token; a failure to make the token returns False
StConnectBegin ==
  /\ stConnPc = "idle"
  /\ stConnCalls < MaxConnects
  /\ stConnCalls' = stConnCalls + 1
  /\ stRoom' = TRUE
  /\ \E tokenMade \in BOOLEAN :
       IF tokenMade
       THEN /\ stConnPc' = "joining"
            /\ UNCHANGED stLastConnect
       ELSE /\ stLastConnect' = "false"
            /\ UNCHANGED stConnPc
  /\ UNCHANGED <<stConnected, stStreaming, stSource, stStartPc, stStopPc,
                 stDiscPc, stJoins, stSends, stSubmitted, stLastSend>>
  /\ UNCHANGED NotSt

\* StConnectEnd that sets connected whatever the join did
StConnectEndAlways ==
  /\ stConnPc = "joining"
  /\ stJoins' = stJoins + 1
  /\ stConnPc' = "idle"
  /\ stConnected' = TRUE
  /\ \E joined \in BOOLEAN :
       stLastConnect' = IF joined THEN "true" ELSE "false"
  /\ UNCHANGED <<stStreaming, stRoom, stSource, stStartPc, stStopPc,
                 stDiscPc, stConnCalls, stSends, stSubmitted, stLastSend>>
  /\ UNCHANGED NotSt

\* connect() after the await: connected = True and return True when the
\* join succeeded, return False when it raised
StConnectEnd ==
  /\ stConnPc = "joining"
  /\ stJoins' = stJoins + 1
  /\ stConnPc' = "idle"
  /\ \E joined \in BOOLEAN :
       IF joined
       THEN /\ stConnected' = TRUE
            /\ stLastConnect' = "true"
       ELSE /\ stLastConnect' = "false"
            /\ UNCHANGED stConnected
  /\ UNCHANGED <<stStreaming, stRoom, stSource, stStartPc, stStopPc,
                 stDiscPc, stConnCalls, stSends, stSubmitted, stLastSend>>
  /\ UNCHANGED NotSt

\* start_streaming() up to "await ...publish_track(...)": refused (nothing
\* changes) unless connected; the video source and track are created
StStartBegin ==
  /\ stStartPc = "idle"
  /\ stConnected
  /\ stSource' = TRUE
  /\ stStartPc' = "publishing"
  /\ UNCHANGED <<stConnected, stStreaming, stRoom, stConnPc, stStopPc,
                 stDiscPc, stConnCalls, stJoins, stSends, stSubmitted,
                 stLastSend, stLastConnect>>
  /\ UNCHANGED NotSt

\* start_streaming() after the await: streaming = True when publish_track
\* returned, nothing when it raised
StStartEnd ==
  /\ stStartPc = "publishing"
  /\ stStartPc' = "idle"
  /\ \E published \in BOOLEAN :
       stStreaming' = (stStreaming \/ published)
  /\ UNCHANGED <<stConnected, stRoom, stSource, stConnPc, stStopPc,
                 stDiscPc, stConnCalls, stJoins, stSends, stSubmitted,
                 stLastSend, stLastConnect>>
  /\ UNCHANGED NotSt

\* StSendFrame without the test of streaming and video_source
StSendFrameUnguarded ==
  /\ stSends < MaxSends
  /\ stSends' = stSends + 1
  /\ stSubmitted' = stSubmitted + 1
  /\ stLastSend' = "true"
  /\ UNCHANGED <<stConnected, stStreaming, stRoom, stSource, stConnPc,
                 stStartPc, stStopPc, stDiscPc, stConnCalls, stJoins,
                 stLastConnect>>
  /\ UNCHANGED NotSt

\* send_frame(frame): it has no await.  "if not self.streaming or not
\* self.video_source: return False"; otherwise the frame is converted and
\* handed to video_source.capture_frame, and False is returned if any of
\* that raises
StSendFrame ==
  /\ stSends < MaxSends
  /\ stSends' = stSends + 1
  /\ IF ~stStreaming \/ ~stSource
     THEN /\ stLastSend' = "false"
          /\ UNCHANGED stSubmitted
     ELSE \E captured \in BOOLEAN :
            IF captured
            THEN /\ stSubmitted' = stSubmitted + 1
                 /\ stLastSend' = "true"
            ELSE /\ stLastSend' = "false"
                 /\ UNCHANGED stSubmitted
  /\ UNCHANGED <<stConnected, stStreaming, stRoom, stSource, stConnPc,
                 stStartPc, stStopPc, stDiscPc, stConnCalls, stJoins,
                 stLastConnect>>
  /\ UNCHANGED NotSt

\* stop_streaming() up to "await ...unpublish_track(...)"; it does nothing
\* unless streaming
StStopBegin ==
  /\ stStopPc = "idle"
  /\ stStreaming
  /\ stStreaming' = FALSE
  /\ IF stSource /\ stRoom
     THEN /\ stStopPc' = "unpublishing"
          /\ UNCHANGED stSource
     ELSE /\ stSource' = FALSE
          /\ UNCHANGED stStopPc
  /\ UNCHANGED <<stConnected, stRoom, stConnPc, stStartPc, stDiscPc,
                 stConnCalls, stJoins, stSends, stSubmitted, stLastSend,
                 stLastConnect>>
  /\ UNCHANGED NotSt

\* stop_streaming() after the await: video_track = video_source = None,
\* unless unpublish_track raised
StStopEnd ==
  /\ stStopPc = "unpublishing"
  /\ stStopPc' = "idle"
  /\ \E raised \in BOOLEAN :
       stSource' = IF raised THEN stSource ELSE FALSE
  /\ UNCHANGED <<stConnected, stStreaming, stRoom, stConnPc, stStartPc,
                 stDiscPc, stConnCalls, stJoins, stSends, stSubmitted,
                 stLastSend, stLastConnect>>
  /\ UNCHANGED NotSt

\* disconnect() up to its first await: stop_streaming() when streaming,
\* else room.disconnect() when connected; nothing otherwise
StDisconnectBegin ==
  /\ stDiscPc = "idle"
  /\ stStreaming \/ (stConnected /\ stRoom)
  /\ IF stStreaming
     THEN /\ stStreaming' = FALSE
          /\ IF stSource /\ stRoom
             THEN /\ stDiscPc' = "unpublishing"
                  /\ UNCHANGED stSource
             ELSE /\ stSource' = FALSE
                  /\ stDiscPc' = IF stConnected /\ stRoom THEN "leaving"
                                                          ELSE "idle"
     ELSE /\ stDiscPc' = "leaving"
          /\ UNCHANGED <<stStreaming, stSource>>
  /\ UNCHANGED <<stConnected, stRoom, stConnPc, stStartPc, stStopPc,
                 stConnCalls, stJoins, stSends, stSubmitted, stLastSend,
                 stLastConnect>>
  /\ UNCHANGED NotSt

\* disconnect(): stop_streaming() returns, or what unpublish_track raised
\* leaves disconnect()
StDisconnectUnpublished ==
  /\ stDiscPc = "unpublishing"
  /\ \E raised \in BOOLEAN :
       IF raised
       THEN /\ stDiscPc' = "idle"
            /\ UNCHANGED stSource
       ELSE /\ stSource' = FALSE
            /\ stDiscPc' = IF stConnected /\ stRoom THEN "leaving" ELSE "idle"
  /\ UNCHANGED <<stConnected, stStreaming, stRoom, stConnPc, stStartPc,
                 stStopPc, stConnCalls, stJoins, stSends, stSubmitted,
                 stLastSend, stLastConnect>>
  /\ UNCHANGED NotSt

\* disconnect() after "await self.room.disconnect()": connected = False,
\* room = None, unless room.disconnect() raised
StDisconnectLeft ==
  /\ stDiscPc = "leaving"
  /\ stDiscPc' = "idle"
  /\ \E raised \in BOOLEAN :
       IF raised
       THEN UNCHANGED <<stConnected, stRoom>>
       ELSE /\ stConnected' = FALSE
            /\ stRoom' = FALSE
  /\ UNCHANGED <<stStreaming, stSource, stConnPc, stStartPc, stStopPc,
                 stConnCalls, stJoins, stSends, stSubmitted, stLastSend,
                 stLastConnect>>
  /\ UNCHANGED NotSt

----------------------------------------------------------------------------
(* JetsonTelemetry: _collect_telemetry, _telemetry_loop, start, stop         *)

\* every collector of a tick raises
AllFailed ==
  [cpu |-> "failed", memory |-> "failed", gpu |-> "failed",
   temperature |-> "failed", network |-> "failed"]

\* what the collectors of one tick do: all work, all fail, one fails, the
\* Jetson tools are missing
TmOutcomes ==
  { [cpu |-> "ok", memory |-> "ok", gpu |-> "ok", temperature |-> "ok",
     network |-> "ok"],
    AllFailed,
    [cpu |-> "failed", memory |-> "ok", gpu |-> "ok", temperature |-> "ok",
     network |-> "ok"],
    [cpu |-> "ok", memory |-> "ok", gpu |-> "unavailable",
     temperature |-> "unavailable", network |-> "ok"] }

\* __init__: running = False, current_data = {}, callbacks = []
TmInit ==
  /\ tmMetrics \in {AllMetrics, {"cpu_usage", "temperature"}}
  /\ tmRunning = FALSE
  /\ tmPc = "idle"
  /\ tmCallbacks = 0
  /\ tmData = DictOf({}, "none")
  /\ tmInputs = [cpu |-> "none", memory |-> "none", gpu |-> "none",
                 temperature |-> "none", network |-> "none"]
  /\ tmSnap = 0
  /\ tmIdx = 0
  /\ tmAtStart = 0
  /\ tmCalls = [c \in 1..MaxObservers |-> 0]
  /\ tmSeen = [c \in 1..MaxObservers |-> 0]
  /\ tmRaised = {}

NotTm == <<codecVars, camVars, mkVars, foVars, stVars, rxVars, lcVars, svVars, mgVars, wsVars, tkVars, thVars>>

\* the telemetry group when another component is examined
TmPark == TmInit /\ tmMetrics = AllMetrics

\* register_callback(callback)
TmRegister ==
  /\ tmCallbacks < MaxObservers
  /\ tmCallbacks' = tmCallbacks + 1
  /\ UNCHANGED <<tmMetrics, tmRunning, tmPc, tmData, tmInputs, tmSnap, tmIdx,
                 tmAtStart, tmCalls, tmSeen, tmRaised>>
  /\ UNCHANGED NotTm

\* start(): nothing when running; else running = True and the loop thread
\* starts (here: once the previous loop thread is gone)
TmStart ==
  /\ ~tmRunning
  /\ tmPc \in {"idle", "exited"}
  /\ tmRunning' = TRUE
  /\ tmPc' = "check"
  /\ UNCHANGED <<tmMetrics, tmCallbacks, tmData, tmInputs, tmSnap, tmIdx,
                 tmAtStart, tmCalls, tmSeen, tmRaised>>
  /\ UNCHANGED NotTm

\* stop(): running = False
TmStop ==
  /\ tmRunning
  /\ tmRunning' = FALSE
  /\ UNCHANGED <<tmMetrics, tmPc, tmCallbacks, tmData, tmInputs, tmSnap,
                 tmIdx, tmAtStart, tmCalls, tmSeen, tmRaised>>
  /\ UNCHANGED NotTm

\* _telemetry_loop: "while self.running" (after the sleep of the last tick)
TmCheck ==
  /\ tmPc = "check"
  /\ tmPc' = IF tmRunning THEN "collect" ELSE "exited"
  /\ UNCHANGED <<tmMetrics, tmRunning, tmCallbacks, tmData, tmInputs, tmSnap,
                 tmIdx, tmAtStart, tmCalls, tmSeen, tmRaised>>
  /\ UNCHANGED NotTm

\* _telemetry_loop: telemetry_data = self._collect_telemetry();
\* self.current_data = telemetry_data
TmCollect ==
  /\ tmPc = "collect"
  /\ \E o \in TmOutcomes :
       /\ tmData' = collect_telemetry(tmMetrics, o)
       /\ tmInputs' = o
  /\ tmSnap' = 1 - tmSnap
  /\ tmIdx' = 1
  /\ tmAtStart' = tmCallbacks
  /\ tmCalls' = [c \in 1..MaxObservers |-> 0]
  /\ tmRaised' = {}
  /\ tmPc' = "notify"
  /\ UNCHANGED <<tmMetrics, tmRunning, tmCallbacks, tmSeen>>
  /\ UNCHANGED NotTm

\* TmNotify where what a callback raises leaves the for loop
TmNotifyUntilRaise ==
  /\ tmPc = "notify"
  /\ IF tmIdx <= tmCallbacks
     THEN /\ tmCalls' = [tmCalls EXCEPT ![tmIdx] = @ + 1]
          /\ tmSeen' = [tmSeen EXCEPT ![tmIdx] = tmSnap]
          /\ tmIdx' = tmIdx + 1
          /\ \E raised \in BOOLEAN :
               IF raised
               THEN /\ tmRaised' = tmRaised \cup {tmIdx}
                    /\ tmPc' = "check"
               ELSE UNCHANGED <<tmRaised, tmPc>>
     ELSE /\ tmPc' = "check"
          /\ UNCHANGED <<tmCalls, tmSeen, tmIdx, tmRaised>>
  /\ UNCHANGED <<tmMetrics, tmRunning, tmCallbacks, tmData, tmInputs, tmSnap,
                 tmAtStart>>
  /\ UNCHANGED NotTm

\* _telemetry_loop: one pass of "for callback in self.callbacks: try:
\* callback(telemetry_data) except Exception: log", or the end of the for
\* loop and the sleep
TmNotify ==
  /\ tmPc = "notify"
  /\ IF tmIdx <= tmCallbacks
     THEN /\ tmCalls' = [tmCalls EXCEPT ![tmIdx] = @ + 1]
          /\ tmSeen' = [tmSeen EXCEPT ![tmIdx] = tmSnap]
          /\ tmIdx' = tmIdx + 1
          /\ \E raised \in BOOLEAN :
               tmRaised' = IF raised THEN tmRaised \cup {tmIdx} ELSE tmRaised
          /\ UNCHANGED tmPc
     ELSE /\ tmPc' = "check"
          /\ UNCHANGED <<tmCalls, tmSeen, tmIdx, tmRaised>>
  /\ UNCHANGED <<tmMetrics, tmRunning, tmCallbacks, tmData, tmInputs, tmSnap,
                 tmAtStart>>
  /\ UNCHANGED NotTm

----------------------------------------------------------------------------
(* Threads: SIYIMK15 and SIYIMKController connect/disconnect, JetsonCamera   *)
(* and JetsonTelemetry start/stop, and the "while self.running" loops        *)

\* the component whose running flag a loop tests
LoopOwner(loop) ==
  CASE loop \in {"heartbeat", "listener"} -> "mk15"
    [] loop = "capture" -> "camera"
    [] loop = "sampling" -> "telemetry"

LcInit ==
  /\ lcRunning = [c \in {"mk15", "camera", "telemetry"} |-> FALSE]
  /\ lcLoops = [l \in {"heartbeat", "listener", "capture", "sampling"} |-> 0]
  /\ lcPort = "none"
  /\ lcCamera = FALSE
  /\ lcConnected = FALSE
  /\ lcBeat = 0
  /\ lcBeatOk = FALSE
  /\ lcUdpBeat = 0
  /\ lcLast = <<"none", "none">>

NotLc == <<codecVars, camVars, mkVars, foVars, stVars, tmVars, rxVars, svVars, mgVars, wsVars, tkVars, thVars>>

\* SIYIMK15.connect where running is set before the port is opened
Mk15ConnectEager ==
  /\ lcLoops["heartbeat"] < MaxLoops
  /\ lcLoops["listener"] < MaxLoops
  /\ lcRunning' = [lcRunning EXCEPT !["mk15"] = TRUE]
  /\ \E opened \in BOOLEAN :
       IF opened
       THEN /\ lcPort' = "open"
            /\ lcLoops' = [lcLoops EXCEPT !["heartbeat"] = @ + 1,
                                          !["listener"] = @ + 1]
            /\ lcLast' = <<"mk15", "true">>
       ELSE /\ lcLast' = <<"mk15", "false">>
            /\ UNCHANGED <<lcPort, lcLoops>>
  /\ UNCHANGED <<lcCamera, lcConnected, lcBeat, lcBeatOk, lcUdpBeat>>
  /\ UNCHANGED NotLc

\* SIYIMK15.connect(): serial.Serial(...) opens the port or raises; when it
\* opened: running = True, the heartbeat thread and the listener thread start,
\* return True; when it raised: return False
Mk15Connect ==
  /\ lcLoops["heartbeat"] < MaxLoops
  /\ lcLoops["listener"] < MaxLoops
  /\ \E opened \in BOOLEAN :
       IF opened
       THEN /\ lcPort' = "open"
            /\ lcRunning' = [lcRunning EXCEPT !["mk15"] = TRUE]
            /\ lcLoops' = [lcLoops EXCEPT !["heartbeat"] = @ + 1,
                                          !["listener"] = @ + 1]
            /\ lcLast' = <<"mk15", "true">>
       ELSE /\ lcLast' = <<"mk15", "false">>
            /\ UNCHANGED <<lcPort, lcRunning, lcLoops>>
  /\ UNCHANGED <<lcCamera, lcConnected, lcBeat, lcBeatOk, lcUdpBeat>>
  /\ UNCHANGED NotLc

\* SIYIMK15.disconnect(): running = False, the bounded join of the heartbeat
\* thread, ser.close()
Mk15Disconnect ==
  /\ lcRunning' = [lcRunning EXCEPT !["mk15"] = FALSE]
  /\ lcPort' = IF lcPort = "open" THEN "closed" ELSE lcPort
  /\ UNCHANGED <<lcLoops, lcCamera, lcConnected, lcBeat, lcBeatOk, lcUdpBeat,
                 lcLast>>
  /\ UNCHANGED NotLc

\* _heartbeat_loop where a HEARTBEAT that is not written ends the loop
HeartbeatLoopFragile ==
  /\ lcLoops["heartbeat"] > 0
  /\ IF lcRunning["mk15"]
     THEN /\ lcBeat' = 1 - lcBeat
          /\ \E written \in BOOLEAN :
               /\ written => lcPort = "open"
               /\ lcBeatOk' = written
               /\ lcLoops' = IF written THEN lcLoops
                             ELSE [lcLoops EXCEPT !["heartbeat"] = @ - 1]
     ELSE /\ lcLoops' = [lcLoops EXCEPT !["heartbeat"] = @ - 1]
          /\ UNCHANGED <<lcBeat, lcBeatOk>>
  /\ UNCHANGED <<lcRunning, lcPort, lcCamera, lcConnected, lcUdpBeat, lcLast>>
  /\ UNCHANGED NotLc

\* _heartbeat_loop: one pass of "while self.running: send_command(HEARTBEAT);
\* sleep(1.0)", or the end of the loop; send_command returns False when the
\* port is not open or the write raises
HeartbeatLoop ==
  /\ lcLoops["heartbeat"] > 0
  /\ IF lcRunning["mk15"]
     THEN /\ lcBeat' = 1 - lcBeat
          /\ \E written \in BOOLEAN :
               /\ written => lcPort = "open"
               /\ lcBeatOk' = written
          /\ UNCHANGED lcLoops
     ELSE /\ lcLoops' = [lcLoops EXCEPT !["heartbeat"] = @ - 1]
          /\ UNCHANGED <<lcBeat, lcBeatOk>>
  /\ UNCHANGED <<lcRunning, lcPort, lcCamera, lcConnected, lcUdpBeat, lcLast>>
  /\ UNCHANGED NotLc

\* LoopTest where a thread never leaves its loop
LoopTestForever(loop) ==
  /\ lcLoops[loop] > 0
  /\ lcRunning[LoopOwner(loop)]
  /\ UNCHANGED lcVars
  /\ UNCHANGED NotLc

\* the test of "while self.running" in _response_listener, _capture_loop and
\* _telemetry_loop, after a pass of the body (which ends, also when it raises
\* on a closed port or a released camera): the thread stays in the loop while
\* running is true and leaves it when running is false
LoopTest(loop) ==
  /\ lcLoops[loop] > 0
  /\ IF lcRunning[LoopOwner(loop)]
     THEN UNCHANGED lcLoops
     ELSE lcLoops' = [lcLoops EXCEPT ![loop] = @ - 1]
  /\ UNCHANGED <<lcRunning, lcPort, lcCamera, lcConnected, lcBeat, lcBeatOk,
                 lcUdpBeat, lcLast>>
  /\ UNCHANGED NotLc

\* SIYIMKController.connect(): the video socket, the control socket and its
\* bind; when they work: one _send_heartbeat(), connected = True, return
\* True; when one raises: return False.  No thread is started.
ControllerConnect ==
  /\ \E bound \in BOOLEAN :
       IF bound
       THEN /\ lcUdpBeat' = 1 - lcUdpBeat
            /\ lcConnected' = TRUE
            /\ lcLast' = <<"controller", "true">>
       ELSE /\ lcLast' = <<"controller", "false">>
            /\ UNCHANGED <<lcUdpBeat, lcConnected>>
  /\ UNCHANGED <<lcRunning, lcLoops, lcPort, lcCamera, lcBeat, lcBeatOk>>
  /\ UNCHANGED NotLc

\* SIYIMKController.disconnect(): connected = False, the sockets are closed
ControllerDisconnect ==
  /\ lcConnected
  /\ lcConnected' = FALSE
  /\ UNCHANGED <<lcRunning, lcLoops, lcPort, lcCamera, lcBeat, lcBeatOk,
                 lcUdpBeat, lcLast>>
  /\ UNCHANGED NotLc

\* JetsonCamera.start() where running is set before the device is opened
CameraStartEager ==
  /\ lcLoops["capture"] < MaxLoops
  /\ lcRunning' = [lcRunning EXCEPT !["camera"] = TRUE]
  /\ \E opened \in BOOLEAN :
       IF lcCamera \/ opened
       THEN /\ lcCamera' = TRUE
            /\ lcLoops' = [lcLoops EXCEPT !["capture"] = @ + 1]
            /\ lcLast' = <<"camera", "true", 1>>
       ELSE /\ lcLast' = <<"camera", "false", 1>>
            /\ UNCHANGED <<lcCamera, lcLoops>>
  /\ UNCHANGED <<lcPort, lcConnected, lcBeat, lcBeatOk, lcUdpBeat>>
  /\ UNCHANGED NotLc

\* JetsonCamera.start(): return True when running; open() once when the
\* device is not opened, return False when that fails; running = True and the
\* capture thread starts.  lcLast gets what start() returned and how many
\* times it called open().
CameraStart ==
  /\ \E opened \in BOOLEAN :
       LET opens == IF lcRunning["camera"] \/ lcCamera THEN 0 ELSE 1
       IN CASE lcRunning["camera"] ->
                 /\ lcLast' = <<"camera", "true", opens>>
                 /\ UNCHANGED <<lcCamera, lcRunning, lcLoops>>
            [] ~lcRunning["camera"] /\ (lcCamera \/ opened) ->
                 /\ lcLoops["capture"] < MaxLoops
                 /\ lcCamera' = TRUE
                 /\ lcRunning' = [lcRunning EXCEPT !["camera"] = TRUE]
                 /\ lcLoops' = [lcLoops EXCEPT !["capture"] = @ + 1]
                 /\ lcLast' = <<"camera", "true", opens>>
            [] OTHER ->
                 /\ lcLast' = <<"camera", "false", opens>>
                 /\ UNCHANGED <<lcCamera, lcRunning, lcLoops>>
  /\ UNCHANGED <<lcPort, lcConnected, lcBeat, lcBeatOk, lcUdpBeat>>
  /\ UNCHANGED NotLc

\* JetsonCamera.stop(): running = False, the bounded join, camera.release()
CameraStop ==
  /\ lcRunning["camera"] \/ lcCamera
  /\ lcRunning' = [lcRunning EXCEPT !["camera"] = FALSE]
  /\ lcCamera' = FALSE
  /\ UNCHANGED <<lcLoops, lcPort, lcConnected, lcBeat, lcBeatOk, lcUdpBeat,
                 lcLast>>
  /\ UNCHANGED NotLc

\* JetsonTelemetry.start(): nothing when running; running = True and the
\* sampling thread starts
TelemetryStart ==
  /\ ~lcRunning["telemetry"]
  /\ lcLoops["sampling"] < MaxLoops
  /\ lcRunning' = [lcRunning EXCEPT !["telemetry"] = TRUE]
  /\ lcLoops' = [lcLoops EXCEPT !["sampling"] = @ + 1]
  /\ UNCHANGED <<lcPort, lcCamera, lcConnected, lcBeat, lcBeatOk, lcUdpBeat,
                 lcLast>>
  /\ UNCHANGED NotLc

\* JetsonTelemetry.stop(): running = False, the bounded join
TelemetryStop ==
  /\ lcRunning["telemetry"]
  /\ lcRunning' = [lcRunning EXCEPT !["telemetry"] = FALSE]
  /\ UNCHANGED <<lcLoops, lcPort, lcCamera, lcConnected, lcBeat, lcBeatOk,
                 lcUdpBeat, lcLast>>
  /\ UNCHANGED NotLc

----------------------------------------------------------------------------
(* SIYIMKController.send_video_frame: one encoded frame as UDP datagrams     *)

\* max_packet_size = 1400  # MTU consideration
max_packet_size == 1400

\* encoded.tobytes() of a frame of n bytes; byte i is written as i, so that
\* every byte of the frame is told from every other one
FrameData(n) == [i \in 1..n |-> i]

\* the sizes of the encoded frames: at and around the multiples of
\* max_packet_size, and in between
FrameSizes ==
  { k * max_packet_size + d :
      k \in 0..MaxFragments, d \in {1, 700, max_packet_size - 1,
                                    max_packet_size} }

SvInit ==
  /\ svPc = "idle"
  /\ svLen = 0
  /\ svI = 0
  /\ svSent = <<>>
  /\ svRet = "none"

NotSv == <<codecVars, camVars, mkVars, foVars, stVars, tmVars, lcVars, rxVars, mgVars, wsVars, tkVars, thVars>>

\* send_video_frame(frame): "if not self.connected or not self.video_socket:
\* return False"; else the frame is encoded
SendVideoFrameCall ==
  /\ svPc \in {"idle", "done"}
  /\ \E n \in FrameSizes :
       /\ svLen' = n
       /\ svI' = 0
       /\ svSent' = <<>>
       /\ IF lcConnected
          THEN svPc' = "sending" /\ svRet' = "none"
          ELSE svPc' = "done" /\ svRet' = "false"
  /\ UNCHANGED NotSv

\* SendVideoFrameSend with num_packets = len(frame_data) // max_packet_size
SendVideoFrameSendFloor ==
  /\ svPc = "sending"
  /\ \E sent \in BOOLEAN :
       LET num_packets == svLen \div max_packet_size
           start == svI * max_packet_size
           end == IF (svI + 1) * max_packet_size < svLen
                  THEN (svI + 1) * max_packet_size ELSE svLen
       IN IF ~sent
          THEN /\ svPc' = "done"
               /\ svRet' = "false"
               /\ UNCHANGED <<svI, svSent>>
          ELSE /\ svSent' = Append(svSent,
                                   SubSeq(FrameData(svLen), start + 1, end))
               /\ svI' = svI + 1
               /\ IF svI + 1 >= num_packets
                  THEN svPc' = "done" /\ svRet' = "true"
                  ELSE UNCHANGED <<svPc, svRet>>
  /\ UNCHANGED svLen
  /\ UNCHANGED NotSv

\* one video_socket.sendto(...): the whole frame when it fits in
\* max_packet_size, else frame_data[start:end] of the pass i of the for loop;
\* after the last one return True; a sendto that raises ends the call with
\* return False (it always raises once disconnect() has closed the socket)
SendVideoFrameSend ==
  /\ svPc = "sending"
  /\ \E sent \in BOOLEAN :
       LET num_packets ==
             IF svLen <= max_packet_size THEN 1
             ELSE (svLen + max_packet_size - 1) \div max_packet_size
           start == svI * max_packet_size
           end == IF (svI + 1) * max_packet_size < svLen
                  THEN (svI + 1) * max_packet_size ELSE svLen
       IN IF ~sent \/ ~lcConnected
          THEN /\ svPc' = "done"
               /\ svRet' = "false"
               /\ UNCHANGED <<svI, svSent>>
          ELSE /\ svSent' = Append(svSent,
                                   SubSeq(FrameData(svLen), start + 1, end))
               /\ svI' = svI + 1
               /\ IF svI + 1 >= num_packets
                  THEN svPc' = "done" /\ svRet' = "true"
                  ELSE UNCHANGED <<svPc, svRet>>
  /\ UNCHANGED svLen
  /\ UNCHANGED NotSv

----------------------------------------------------------------------------
(* LiveKitStreamManager: start(), stop(), the wrappers, and the event loop   *)
(* that runs run_streamer() in a background thread                           *)

MgInit ==
  /\ mgRunning = FALSE
  /\ mgLoop = "none"
  /\ mgStopping = FALSE
  /\ mgPc = "none"
  /\ mgReady = FALSE
  /\ mgConnected = FALSE
  /\ mgQueued = 0
  /\ mgStart = "none"
  /\ mgStopPc = "idle"

NotMg == <<codecVars, camVars, mkVars, foVars, stVars, tmVars, lcVars, svVars, rxVars, wsVars, tkVars, thVars>>

\* run_streamer() from "while self.running" to its next await: the sleep
\* while running; else streamer.disconnect(), which awaits room.disconnect()
\* when connected and returns at once when not (start_streaming is never
\* called on the manager's streamer, so streaming is False)
WaitLoop(running, connected) ==
  IF running THEN [pc |-> "sleep", connected |-> connected]
  ELSE IF connected THEN [pc |-> "leave", connected |-> connected]
  ELSE [pc |-> "done", connected |-> connected]

\* one step of the task run_streamer(), from the await at pc to the next:
\*   await self.streamer.connect()   (the token, then the join)
\*   while self.running: await asyncio.sleep(0.1)
\*   await self.streamer.disconnect()
\* ok tells whether the awaited call (token, join, room.disconnect) worked;
\* what room.disconnect() raises ends the task with connected still True
run_streamer(pc, running, connected, ok) ==
  CASE pc = "start" ->
         IF ok THEN [pc |-> "connect", connected |-> connected]
         ELSE WaitLoop(running, FALSE)
    [] pc = "connect" -> WaitLoop(running, ok)
    [] pc = "sleep" -> WaitLoop(running, connected)
    [] pc = "leave" -> [pc |-> "done", connected |-> ~ok /\ connected]

\* start() up to "Wait for connection": the loop and the streamer are made,
\* running = True, the thread that runs run_until_complete(run_streamer())
\* starts
ManagerStart ==
  /\ mgLoop = "none"
  /\ mgLoop' = "running"
  /\ mgRunning' = TRUE
  /\ mgPc' = "start"
  /\ mgReady' = TRUE
  /\ mgStart' = "waiting"
  /\ UNCHANGED <<mgStopping, mgConnected, mgQueued, mgStopPc>>
  /\ UNCHANGED NotMg

\* start(): the end of "while not self.streamer.connected and time.time() -
\* start_time < timeout", on connected or on the timeout
ManagerStartWait ==
  /\ mgStart = "waiting"
  /\ mgStart' = IF mgConnected THEN "true" ELSE "false"
  /\ UNCHANGED <<mgRunning, mgLoop, mgStopping, mgPc, mgReady, mgConnected,
                 mgQueued, mgStopPc>>
  /\ UNCHANGED NotMg

\* send_frame(frame), send_telemetry(data): return False without a loop and
\* a streamer; else run_coroutine_threadsafe hands the coroutine to the loop
ManagerSendFrame ==
  /\ mgLoop # "none"
  /\ mgQueued < MaxSends
  /\ mgQueued' = mgQueued + 1
  /\ UNCHANGED <<mgRunning, mgLoop, mgStopping, mgPc, mgReady, mgConnected,
                 mgStart, mgStopPc>>
  /\ UNCHANGED NotMg

\* stop(): self.running = False
ManagerStopFlag ==
  /\ mgStopPc = "idle"
  /\ mgLoop # "none"
  /\ mgRunning' = FALSE
  /\ mgStopPc' = "flagged"
  /\ UNCHANGED <<mgLoop, mgStopping, mgPc, mgReady, mgConnected, mgQueued,
                 mgStart>>
  /\ UNCHANGED NotMg

\* stop(): "if self.loop: self.loop.stop()"
ManagerStopLoop ==
  /\ mgStopPc = "flagged"
  /\ mgStopping' = TRUE
  /\ mgStopPc' = "done"
  /\ UNCHANGED <<mgRunning, mgLoop, mgPc, mgReady, mgConnected, mgQueued,
                 mgStart>>
  /\ UNCHANGED NotMg

\* one iteration of the event loop (run_until_complete -> run_forever ->
\* _run_once): the callbacks that are ready when it begins are run, which
\* are some of the queued coroutines and, for the task run_streamer(), either
\* its next step or the callback (timer, answer of the room) that makes its
\* next step ready for the iteration after this one; then the loop ends if
\* stop() was called on it or the task is done
LoopRunOnce ==
  /\ mgLoop = "running"
  /\ \E nq \in 0..mgQueued, task \in BOOLEAN, ok \in BOOLEAN :
       /\ task \/ nq > 0
       /\ task => mgPc # "done"
       /\ mgQueued' = mgQueued - nq
       /\ CASE ~task -> UNCHANGED <<mgPc, mgReady, mgConnected>>
            [] task /\ ~mgReady ->
                 /\ mgReady' = TRUE
                 /\ UNCHANGED <<mgPc, mgConnected>>
            [] task /\ mgReady ->
                 LET next == run_streamer(mgPc, mgRunning, mgConnected, ok)
                 IN /\ mgPc' = next.pc
                    /\ mgConnected' = next.connected
                    /\ mgReady' = FALSE
       /\ mgLoop' = IF mgStopping \/ mgPc' = "done" THEN "stopped"
                    ELSE "running"
  /\ UNCHANGED <<mgRunning, mgStopping, mgStart, mgStopPc>>
  /\ UNCHANGED NotMg

----------------------------------------------------------------------------
(* WebServer: the locks around current_frame and telemetry_data, and the     *)
(* sends to the clients                                                      *)

\* __init__: current_frame = None, telemetry_data = {}, two free locks
WsInit ==
  /\ wsPc = [t \in {"main", "viewer", "client"} |-> "idle"]
  /\ wsLock = [l \in {"frame_lock", "telemetry_lock"} |-> "free"]
  /\ wsFrame = 0
  /\ wsTelemetry = 0
  /\ wsBuffer = -1
  /\ wsSent = <<"none", 0>>

NotWs == <<codecVars, camVars, mkVars, foVars, stVars, tmVars, lcVars, svVars, mgVars, rxVars, tkVars, thVars>>

\* "with lock:" entered by thread t, which goes to position pc
Acquire(t, lock, pc) ==
  /\ wsLock[lock] = "free"
  /\ wsLock' = [wsLock EXCEPT ![lock] = t]
  /\ wsPc' = [wsPc EXCEPT ![t] = pc]

\* the end of the "with lock:" block of thread t, which goes to position pc
Release(t, lock, pc) ==
  /\ wsLock' = [wsLock EXCEPT ![lock] = "free"]
  /\ wsPc' = [wsPc EXCEPT ![t] = pc]

\* update_frame(frame): "with self.frame_lock:"
UpdateFrameEnter ==
  /\ wsPc["main"] = "idle"
  /\ wsFrame < MaxTicks
  /\ Acquire("main", "frame_lock", "frame")
  /\ UNCHANGED <<wsFrame, wsTelemetry, wsBuffer, wsSent>>
  /\ UNCHANGED NotWs

\* update_frame(frame): self.current_frame = frame.copy(), lock released
UpdateFrameExit ==
  /\ wsPc["main"] = "frame"
  /\ wsFrame' = wsFrame + 1
  /\ Release("main", "frame_lock", "idle")
  /\ UNCHANGED <<wsTelemetry, wsBuffer, wsSent>>
  /\ UNCHANGED NotWs

\* update_telemetry(telemetry): "with self.telemetry_lock:"
UpdateTelemetryEnter ==
  /\ wsPc["main"] = "idle"
  /\ wsTelemetry < MaxTicks
  /\ Acquire("main", "telemetry_lock", "telemetry")
  /\ UNCHANGED <<wsFrame, wsTelemetry, wsBuffer, wsSent>>
  /\ UNCHANGED NotWs

\* update_telemetry: self.telemetry_data = telemetry.copy(), lock released;
\* the thread is then in self.socketio.emit('telemetry_update', telemetry)
UpdateTelemetryExit ==
  /\ wsPc["main"] = "telemetry"
  /\ wsTelemetry' = wsTelemetry + 1
  /\ Release("main", "telemetry_lock", "emit")
  /\ UNCHANGED <<wsFrame, wsBuffer, wsSent>>
  /\ UNCHANGED NotWs

\* update_telemetry: the emit to the connected clients returns
UpdateTelemetryEmit ==
  /\ wsPc["main"] = "emit"
  /\ wsSent' = <<"main", wsTelemetry>>
  /\ wsPc' = [wsPc EXCEPT !["main"] = "idle"]
  /\ UNCHANGED <<wsLock, wsFrame, wsTelemetry, wsBuffer>>
  /\ UNCHANGED NotWs

\* _generate_frames: "with self.frame_lock:" of a pass of "while True"
GenerateEnter ==
  /\ wsPc["viewer"] = "idle"
  /\ Acquire("viewer", "frame_lock", "encode")
  /\ UNCHANGED <<wsFrame, wsTelemetry, wsBuffer, wsSent>>
  /\ UNCHANGED NotWs

\* _generate_frames: cv2.imencode of the blank frame or of current_frame,
\* lock released; the thread is then at the yield of the frame bytes
GenerateEncode ==
  /\ wsPc["viewer"] = "encode"
  /\ wsBuffer' = wsFrame
  /\ Release("viewer", "frame_lock", "yield")
  /\ UNCHANGED <<wsFrame, wsTelemetry, wsSent>>
  /\ UNCHANGED NotWs

\* _generate_frames: the frame bytes have gone to the viewer; sleep(0.033)
GenerateYield ==
  /\ wsPc["viewer"] = "yield"
  /\ wsSent' = <<"viewer", wsBuffer>>
  /\ wsPc' = [wsPc EXCEPT !["viewer"] = "idle"]
  /\ UNCHANGED <<wsLock, wsFrame, wsTelemetry, wsBuffer>>
  /\ UNCHANGED NotWs

\* handle_telemetry_request: "with self.telemetry_lock:"; the thread is then
\* in emit('telemetry_update', self.telemetry_data), inside the with block
RequestEnter ==
  /\ wsPc["client"] = "idle"
  /\ Acquire("client", "telemetry_lock", "emit")
  /\ UNCHANGED <<wsFrame, wsTelemetry, wsBuffer, wsSent>>
  /\ UNCHANGED NotWs

\* handle_telemetry_request: the emit to the client returns, lock released
RequestEmit ==
  /\ wsPc["client"] = "emit"
  /\ wsSent' = <<"client", wsTelemetry>>
  /\ Release("client", "telemetry_lock", "idle")
  /\ UNCHANGED <<wsFrame, wsTelemetry, wsBuffer>>
  /\ UNCHANGED NotWs

----------------------------------------------------------------------------
(* JetsonTelemetry._telemetry_loop: the timing of the ticks, in milliseconds *)

\* interval = 1.0 / self.rate_hz
Interval(rate_hz) == 1000 \div rate_hz

\* how long the collectors and the callbacks of a tick take: no time, half a
\* period, just under and exactly a period, more than a period
WorkTimes(interval) ==
  {0, interval \div 2, interval - 1, interval, interval + 1, 3 * interval}

\* __init__ and the start of the loop thread: rate_hz from the configuration
TkInit ==
  /\ tkRate \in {2, 5, 10}
  /\ tkPc = "start"
  /\ tkTick = 0
  /\ tkNow = 0
  /\ tkStart = 0
  /\ tkElapsed = 0
  /\ tkSleep = 0

\* the timing of the ticks when another component is examined
TkPark == TkInit /\ tkRate = 5

NotTk == <<codecVars, camVars, mkVars, foVars, stVars, tmVars, lcVars, svVars, mgVars, wsVars, rxVars, thVars>>

\* sleep_time without the max
SleepTimeUnclamped(interval, elapsed) == interval - elapsed

\* sleep_time = max(0, interval - elapsed)
SleepTime(interval, elapsed) ==
  IF interval - elapsed > 0 THEN interval - elapsed ELSE 0

\* a pass of the loop up to "Sleep for remaining time": start_time =
\* time.time(), then _collect_telemetry() and the callbacks, which take time
TickWork ==
  /\ tkPc = "start"
  /\ tkTick < MaxTicks
  /\ tkStart' = tkNow
  /\ \E w \in WorkTimes(Interval(tkRate)) : tkNow' = tkNow + w
  /\ tkPc' = "sleep"
  /\ UNCHANGED <<tkRate, tkTick, tkElapsed, tkSleep>>
  /\ UNCHANGED NotTk

\* elapsed = time.time() - start_time; sleep_time = max(0, interval -
\* elapsed); time.sleep(sleep_time).  time.sleep raises ValueError on a
\* negative value, and the loop's "except Exception" then sleeps interval.
TickSleep ==
  /\ tkPc = "sleep"
  /\ LET interval == Interval(tkRate)
         elapsed == tkNow - tkStart
         sleep_time == SleepTime(interval, elapsed)
     IN /\ tkElapsed' = elapsed
        /\ tkSleep' = sleep_time
        /\ tkNow' = tkNow + (IF sleep_time < 0 THEN interval ELSE sleep_time)
  /\ tkTick' = tkTick + 1
  /\ tkPc' = "start"
  /\ UNCHANGED <<tkRate, tkStart>>
  /\ UNCHANGED NotTk

----------------------------------------------------------------------------
(* TelemetryHandler: current_telemetry and what updates it                   *)

GpsFields == {"gps_lat", "gps_lon", "altitude"}

AttitudeFields == {"roll", "pitch", "yaw"}

StatsFields == {"cpu_usage", "memory_usage", "temperature"}

\* the fields of TelemetryData but timestamp
TelemetryFields ==
  GpsFields \cup AttitudeFields \cup StatsFields
  \cup {"battery_voltage", "battery_percentage", "gpu_usage", "frame_rate"}

\* the records the link pushes: every field, one group, single fields, none
PushedRecords ==
  { [k \in keys |-> v] :
      keys \in {GpsFields \cup AttitudeFields, GpsFields, {"roll"},
                {"gps_lat", "yaw"}, {}},
      v \in {1, 2} }

\* __init__: current_telemetry = TelemetryData(timestamp=time.time())
ThInit ==
  /\ thGps \in BOOLEAN
  /\ thAttitude \in BOOLEAN
  /\ thStats \in BOOLEAN
  /\ thTelemetry = [f \in TelemetryFields |-> 0]
  /\ thPushed = [k \in {} |-> 0]
  /\ thPushes = 0

\* the handler when another component is examined
ThPark == ThInit /\ thGps /\ thAttitude /\ thStats

NotTh == <<codecVars, camVars, mkVars, foVars, stVars, tmVars, lcVars, svVars, mgVars, wsVars, tkVars, rxVars>>

\* siyi_telemetry.get(key, 0.0)
DictGet(d, key) == IF key \in DOMAIN d THEN d[key] ELSE 0

\* update_from_siyi(siyi_telemetry)
UpdateFromSiyi ==
  /\ thPushes < MaxSends
  /\ \E siyi_telemetry \in PushedRecords :
       /\ thTelemetry' =
            [f \in TelemetryFields |->
               IF (thGps /\ f \in GpsFields)
                  \/ (thAttitude /\ f \in AttitudeFields)
               THEN DictGet(siyi_telemetry, f)
               ELSE thTelemetry[f]]
       /\ thPushed' = siyi_telemetry
  /\ thPushes' = thPushes + 1
  /\ UNCHANGED <<thGps, thAttitude, thStats>>
  /\ UNCHANGED NotTh

\* get_telemetry(): the timestamp, update_system_stats() (nothing unless
\* include_system_stats; psutil may raise before anything is stored), then
\* asdict(current_telemetry)
GetTelemetry ==
  /\ \E measured \in {0, 1, 2} :
       thTelemetry' =
         [f \in TelemetryFields |->
            IF thStats /\ measured # 0 /\ f \in StatsFields THEN measured
            ELSE thTelemetry[f]]
  /\ UNCHANGED <<thGps, thAttitude, thStats, thPushed, thPushes>>
  /\ UNCHANGED NotTh

\* update_frame_rate(): frame_rate is computed anew once a second
UpdateFrameRate ==
  /\ \E fps \in {1, 2} :
       thTelemetry' = [thTelemetry EXCEPT !["frame_rate"] = fps]
  /\ UNCHANGED <<thGps, thAttitude, thStats, thPushed, thPushes>>
  /\ UNCHANGED NotTh

vars == <<codecVars, rxVars, camVars, mkVars, foVars, stVars, tmVars, lcVars, svVars, mgVars, wsVars, tkVars, thVars>>

SpecCodecInit == CodecInit /\ RxPark /\ CamInit /\ MkInit /\ FoInit /\ StInit /\ TmPark /\ LcInit /\ SvInit /\ MgInit /\ WsInit /\ TkPark /\ ThPark

SpecCodecNext ==
  \/ CodecBuild
  \/ CodecTruncate
  \/ CodecParse

SpecCodec == SpecCodecInit /\ [][SpecCodecNext]_vars

SpecCorruptionInit == CorruptInit /\ RxPark /\ CamInit /\ MkInit /\ FoInit /\ StInit /\ TmPark /\ LcInit /\ SvInit /\ MgInit /\ WsInit /\ TkPark /\ ThPark

SpecCorruptionNext ==
  \/ CodecBuild
  \/ CodecCorrupt
  \/ CodecParse

SpecCorruption == SpecCorruptionInit /\ [][SpecCorruptionNext]_vars

SpecListenerInit == RxInit /\ CodecPark /\ CamInit /\ MkInit /\ FoInit /\ StInit /\ TmPark /\ LcInit /\ SvInit /\ MgInit /\ WsInit /\ TkPark /\ ThPark

SpecListenerNext == ListenerRead

SpecListener == SpecListenerInit /\ [][SpecListenerNext]_vars

SpecCameraInit == CamInit /\ CodecPark /\ RxPark /\ MkInit /\ FoInit /\ StInit /\ TmPark /\ LcInit /\ SvInit /\ MgInit /\ WsInit /\ TkPark /\ ThPark

SpecCameraNext ==
  \/ CaptureRead
  \/ CapturePut
  \/ CaptureEvict
  \/ CaptureReput
  \/ ConsumerCall
  \/ ConsumerGet
  \/ ConsumerReturn

SpecCamera == SpecCameraInit /\ [][SpecCameraNext]_vars

SpecCallbacksInit == MkInit /\ CodecPark /\ RxPark /\ CamInit /\ FoInit /\ StInit /\ TmPark /\ LcInit /\ SvInit /\ MgInit /\ WsInit /\ TkPark /\ ThPark

SpecCallbacksNext ==
  \/ MkConnect
  \/ MkDisconnect
  \/ SendWrite
  \/ SendRegister
  \/ DeviceRespond
  \/ HandleCheck
  \/ HandleCall
  \/ HandleDel

SpecCallbacks == SpecCallbacksInit /\ [][SpecCallbacksNext]_vars

SpecFanoutInit == FoInit /\ CodecPark /\ RxPark /\ CamInit /\ MkInit /\ StInit /\ TmPark /\ LcInit /\ SvInit /\ MgInit /\ WsInit /\ TkPark /\ ThPark

SpecFanoutNext ==
  \/ InitializeComponents
  \/ IntervalElapses
  \/ LiveKitStart
  \/ StartStreaming
  \/ MainLoopTick
  \/ ProcessFrameLink
  \/ ProcessFrameCloud
  \/ ProcessFrameMonitor
  \/ MainLoopTelemetry
  \/ LoopRunSendFrame
  \/ LoopRunSendTelemetry
  \/ OrchestratorStop
  \/ OnFrameReceived

SpecFanout == SpecFanoutInit /\ [][SpecFanoutNext]_vars

\* A run of StreamOrchestrator.start() by itself: nothing but the
\* orchestrator touches the components.  The main thread keeps running, so
\* every step of start() and of _main_loop that can be taken is taken; the
\* camera is not bound to deliver a frame, so of MainLoopTick only the end of
\* the loop is bound to happen.
SpecOrchestratorNext ==
  \/ InitializeComponents
  \/ IntervalElapses
  \/ MainLoopTick
  \/ ProcessFrameLink
  \/ ProcessFrameCloud
  \/ ProcessFrameMonitor
  \/ MainLoopTelemetry
  \/ OrchestratorStop

SpecOrchestratorFair ==
  /\ SpecFanoutInit
  /\ [][SpecOrchestratorNext]_vars
  /\ WF_vars(InitializeComponents)
  /\ WF_vars(MainLoopTick /\ ~foRunning)
  /\ WF_vars(ProcessFrameLink)
  /\ WF_vars(ProcessFrameCloud)
  /\ WF_vars(ProcessFrameMonitor)
  /\ WF_vars(MainLoopTelemetry)

\* StreamOrchestrator.start() and, next to it, a JetsonCamera that is started
\* and stopped
SpecStartupNext ==
  \/ SpecOrchestratorNext
  \/ CameraStart
  \/ CameraStop
  \/ LoopTest("capture")

SpecStartup == SpecFanoutInit /\ [][SpecStartupNext]_vars

SpecStreamerInit == StInit /\ CodecPark /\ RxPark /\ CamInit /\ MkInit /\ FoInit /\ TmPark /\ LcInit /\ SvInit /\ MgInit /\ WsInit /\ TkPark /\ ThPark

SpecStreamerNext ==
  \/ StConnectBegin
  \/ StConnectEnd
  \/ StStartBegin
  \/ StStartEnd
  \/ StSendFrame
  \/ StStopBegin
  \/ StStopEnd
  \/ StDisconnectBegin
  \/ StDisconnectUnpublished
  \/ StDisconnectLeft

SpecStreamer == SpecStreamerInit /\ [][SpecStreamerNext]_vars

SpecTelemetryInit == TmInit /\ CodecPark /\ RxPark /\ CamInit /\ MkInit /\ FoInit /\ StInit /\ LcInit /\ SvInit /\ MgInit /\ WsInit /\ TkPark /\ ThPark

SpecTelemetryNext ==
  \/ TmRegister
  \/ TmStart
  \/ TmStop
  \/ TmCheck
  \/ TmCollect
  \/ TmNotify

\* the loop thread keeps running: each of its steps is eventually taken
SpecTelemetryFair ==
  /\ SpecTelemetryInit
  /\ [][SpecTelemetryNext]_vars
  /\ WF_vars(TmCheck)
  /\ WF_vars(TmCollect)
  /\ WF_vars(TmNotify)

SpecThreadsInit == LcInit /\ CodecPark /\ RxPark /\ CamInit /\ MkInit /\ FoInit /\ StInit /\ TmPark /\ SvInit /\ MgInit /\ WsInit /\ TkPark /\ ThPark

\* the two ground-station transports
SpecTransportsNext ==
  \/ Mk15Connect
  \/ Mk15Disconnect
  \/ HeartbeatLoop
  \/ LoopTest("listener")
  \/ ControllerConnect
  \/ ControllerDisconnect

\* the loop threads of SIYIMK15 keep running
SpecTransportsFair ==
  /\ SpecThreadsInit
  /\ [][SpecTransportsNext]_vars
  /\ WF_vars(HeartbeatLoop)
  /\ WF_vars(LoopTest("listener"))

\* the components that run loop threads
SpecThreadsNext ==
  \/ Mk15Connect
  \/ Mk15Disconnect
  \/ HeartbeatLoop
  \/ \E loop \in {"listener", "capture", "sampling"} : LoopTest(loop)
  \/ CameraStart
  \/ CameraStop
  \/ TelemetryStart
  \/ TelemetryStop

\* every loop thread keeps running: a pass of a loop is eventually taken
SpecThreadsFair ==
  /\ SpecThreadsInit
  /\ [][SpecThreadsNext]_vars
  /\ WF_vars(HeartbeatLoop)
  /\ \A loop \in {"listener", "capture", "sampling"} : WF_vars(LoopTest(loop))

\* a SIYIMKController that is connected and disconnected while frames are
\* sent to it
SpecVideoNext ==
  \/ ControllerConnect
  \/ ControllerDisconnect
  \/ SendVideoFrameCall
  \/ SendVideoFrameSend

SpecVideo == SpecThreadsInit /\ [][SpecVideoNext]_vars

SpecManagerInit == MgInit /\ CodecPark /\ RxPark /\ CamInit /\ MkInit /\ FoInit /\ StInit /\ TmPark /\ LcInit /\ SvInit /\ WsInit /\ TkPark /\ ThPark

SpecManagerNext ==
  \/ ManagerStart
  \/ ManagerStartWait
  \/ ManagerSendFrame
  \/ ManagerStopFlag
  \/ ManagerStopLoop
  \/ LoopRunOnce

\* The manager by itself.  The thread that called stop() goes on to
\* loop.stop(), start() ends its wait, and the loop thread runs the next
\* iteration of the event loop whenever there is one to run.
SpecManagerFair ==
  /\ SpecManagerInit
  /\ [][SpecManagerNext]_vars
  /\ WF_vars(ManagerStartWait)
  /\ WF_vars(ManagerStopLoop)
  /\ WF_vars(LoopRunOnce)

SpecWebInit == WsInit /\ CodecPark /\ RxPark /\ CamInit /\ MkInit /\ FoInit /\ StInit /\ TmPark /\ LcInit /\ SvInit /\ MgInit /\ TkPark /\ ThPark

SpecWebNext ==
  \/ UpdateFrameEnter
  \/ UpdateFrameExit
  \/ UpdateTelemetryEnter
  \/ UpdateTelemetryExit
  \/ UpdateTelemetryEmit
  \/ GenerateEnter
  \/ GenerateEncode
  \/ GenerateYield
  \/ RequestEnter
  \/ RequestEmit

SpecWeb == SpecWebInit /\ [][SpecWebNext]_vars

SpecTickInit == TkInit /\ CodecPark /\ RxPark /\ CamInit /\ MkInit /\ FoInit /\ StInit /\ TmPark /\ LcInit /\ SvInit /\ MgInit /\ WsInit /\ ThPark

SpecTickNext ==
  \/ TickWork
  \/ TickSleep

SpecTick == SpecTickInit /\ [][SpecTickNext]_vars

SpecHandlerInit == ThInit /\ TkPark /\ CodecPark /\ RxPark /\ CamInit /\ MkInit /\ FoInit /\ StInit /\ TmPark /\ LcInit /\ SvInit /\ MgInit /\ WsInit

SpecHandlerNext ==
  \/ UpdateFromSiyi
  \/ GetTelemetry
  \/ UpdateFrameRate

SpecHandler == SpecHandlerInit /\ [][SpecHandlerNext]_vars

----------------------------------------------------------------------------
(* C1: framing round-trip.  Decoding exactly the bytes produced by encode  *)
(* returns the command id and the payload that were encoded, for both      *)
(* codecs.                                                                 *)
C1_RoundTrip ==
  cdPc = "parsed" =>
    /\ cdResult.ok
    /\ cdResult.command = cdCmd
    /\ cdResult.data = cdPayload

C1_Witness ==
  /\ cdPc = "parsed"
  /\ cdCodec = "SIYIProtocol"
  /\ cdCmd = 255
  /\ Len(cdPayload) = MaxPayloadLen
  /\ cdResult.ok

----------------------------------------------------------------------------
\* the bytes of the run's stream that the port has delivered so far
RxDelivered ==
  LET stream == RxStream(rxFirst, rxFlip, rxFlipVal, rxTwo, rxSecond)
  IN Slice(stream, 0, Len(stream) - Len(rxWire))

(* C2: corruption resync.  When the receive buffer holds a packet with one  *)
(* flipped payload byte followed by a valid second packet, the first is     *)
(* reported corrupt and not dispatched, and the second is dispatched.       *)
C2_CorruptionResync ==
  (rxBurst /\ rxFlip # 0 /\ rxTwo /\ rxWire = <<>>) =>
    /\ rxMismatch >= 1
    /\ rxLog = <<rxSecond>>

(* C3: partial-buffer non-consumption.  While only a proper prefix of one   *)
(* valid packet has arrived, nothing is dispatched and the receive loop has *)
(* discarded none of the bytes; once the rest arrives the packet is         *)
(* dispatched.                                                              *)
C3_PartialBuffer ==
  (~rxBurst /\ rxFlip = 0 /\ ~rxTwo) =>
    IF rxWire # <<>>
    THEN rxLog = <<>> /\ rxBuffer = RxDelivered
    ELSE rxLog = <<rxFirst>>

----------------------------------------------------------------------------
(* C4: drop-oldest frame policy.  When the capture loop has stored two (or  *)
(* more) frames since the previous get_latest_frame() returned and does not *)
(* touch the queue during the call, the call returns the newest stored      *)
(* frame, a frame newer than any returned before, and leaves the buffer     *)
(* empty.                                                                   *)
C4_DropOldest ==
  (consPc = "ret" /\ camStored = 2 /\ ~camRaced) =>
    /\ consFrame = camNewest
    /\ consFrame > consLast
    /\ camQueue = <<>>

C4_Witness ==
  /\ consPc = "ret"
  /\ camStored = 2
  /\ ~camRaced
  /\ camNext = 3
  /\ consFrame = 2
  /\ consLast = 0

(* C5: under any interleaving the capture loop never drops the newest       *)
(* frame: every successfully read frame it has finished handling was stored *)
(* in the buffer.                                                           *)
C5_NewestNeverDropped == camDropped = {}

C8_RegisteredBeforeWrite ==
  /\ (mkSendPc = "written") => (mkTable[mkSendCmd] = mkSendReg)
  /\ (mkNextReg = 2 /\ mkLog # <<>> /\ mkLog[1].req = 1) =>
       mkLog[1].called = 1

(* C9: sink-unavailable skip.  A dispatch step sends the frame on the link  *)
(* only if the link is connected, the frame is submitted to the cloud track *)
(* only if the session is streaming, and whatever the state of those two    *)
(* sinks a frame whose dispatch step has finished has been stored by the    *)
(* monitor (when there is one).                                             *)
C9_SinkUnavailableSkip ==
  /\ [][(foLink' # foLink) => (foSiyi = "up")]_vars
  /\ [][(foTrack' # foTrack) => lkStreaming]_vars
  /\ [](((foPc \in {"telemetry", "tick"}) /\ foFrame # 0 /\ foWeb) =>
          (foFrame \in foMonitor))

C9_Witness ==
  /\ foPc = "tick"
  /\ foFrame = 2
  /\ foSiyi = "down"
  /\ foLivekit = "started"
  /\ ~lkStreaming
  /\ foTasks = <<>>
  /\ foLink = {}
  /\ foTrack = {}
  /\ foMonitor = {1, 2}

(* C10: exception isolation in the fan-out path.  An exception raised while *)
(* forwarding a frame to one sink never ends the dispatch loop, and never   *)
(* keeps the same frame from the monitor.                                   *)
C10_ExceptionIsolation ==
  /\ foEnded # "exception"
  /\ (appLast.web /\ appLast.raised) => appLast.monitor

(* C11: the hand-off into the session context never blocks the caller.     *)
(* The dispatch loop's LiveKit step and its telemetry step can always be    *)
(* taken, whatever is still queued on the session's event loop; they only   *)
(* add to the queues; and a frame is submitted to the track only by a step  *)
(* of the session's loop, never by a step of the dispatch loop.             *)
C11_HandOffNeverBlocks ==
  /\ []((foPc = "cloud") => ENABLED ProcessFrameCloud)
  /\ []((foPc = "telemetry") => ENABLED MainLoopTelemetry)
  /\ [][(foPc = "cloud" /\ foPc' # "cloud") =>
          /\ foPc' = "monitor"
          /\ foTrack' = foTrack
          /\ Len(foTasks') >= Len(foTasks)]_vars
  /\ [][(foPc = "telemetry" /\ foPc' # "telemetry") =>
          foTelemTasks' >= foTelemTasks]_vars
  /\ [][(foTrack' # foTrack) =>
          (foPc' = foPc /\ foLivekit = "started")]_vars

C11_Witness ==
  /\ foPc = "tick"
  /\ foLivekit = "started"
  /\ foTicks = MaxTicks
  /\ Len(foTasks) = MaxTicks
  /\ foTelemTasks = MaxTicks
  /\ foTrack = {}

(* C12: end-to-end publishing.  In a StreamOrchestrator run with LiveKit    *)
(* enabled, for as long as the run goes on, the cloud session eventually    *)
(* reaches Publishing (connected and streaming).                            *)
C12_EndToEndPublishing ==
  [](((foLivekit # "none") /\ foRunning) =>
       <>(~foRunning \/ foEnded # "no" \/ (lkConnected /\ lkStreaming)))

(* C13: LiveKitStreamer.send_frame is a no-op unless the session is         *)
(* Publishing.  A send_frame call made while streaming is false, or while   *)
(* there is no video source, returns False, submits nothing to the track    *)
(* and changes neither connected nor streaming.                             *)
C13_SendFrameNoOp ==
  [][(stSends' = stSends + 1 /\ (~stStreaming \/ ~stSource)) =>
       /\ stLastSend' = "false"
       /\ stSubmitted' = stSubmitted
       /\ stConnected' = stConnected
       /\ stStreaming' = stStreaming]_vars

C13_Witness ==
  /\ stSends = 1
  /\ stLastSend = "false"
  /\ stSubmitted = 0
  /\ stConnected
  /\ ~stStreaming
  /\ ~stSource

(* C14: LiveKitStreamer.connect() sets connected to True only when the room *)
(* join succeeds.  A connect() that returns False (the token could not be   *)
(* made, or the join failed) leaves connected and streaming as they were,   *)
(* so a Disconnected session stays Disconnected, and each connect() call    *)
(* makes at most one join attempt.                                          *)
C14_ConnectOnlyOnJoin ==
  /\ [][(~stConnected /\ stConnected') =>
          (stConnPc = "joining" /\ stLastConnect' = "true")]_vars
  /\ [][((stConnCalls' # stConnCalls \/ stJoins' # stJoins) /\
         stConnPc' = "idle" /\ stLastConnect' = "false") =>
          (stConnected' = stConnected /\ stStreaming' = stStreaming)]_vars
  /\ [](stJoins <= stConnCalls)
  /\ []((stConnCalls = 1 /\ stConnPc = "idle" /\ stLastConnect = "false") =>
          (~stConnected /\ ~stStreaming))

C14_Witness ==
  /\ stConnCalls = 1
  /\ stJoins = 1
  /\ stConnPc = "idle"
  /\ stLastConnect = "false"
  /\ ~stConnected
  /\ ~stStreaming

(* C15: snapshot defaulting.  When every metric collector fails in a tick,  *)
(* the snapshot built by _collect_telemetry still has every field of every  *)
(* enabled metric group.                                                    *)
C15_SnapshotDefaulting ==
  (tmIdx > 0 /\ tmInputs = AllFailed) =>
    \A metric \in tmMetrics : MetricKeys(metric) \subseteq DOMAIN tmData

(* C16: in each tick of the sampling loop every callback registered when    *)
(* the tick was collected is called exactly once, with that tick's          *)
(* snapshot, also when an earlier callback raised; no callback is called    *)
(* twice in a tick; the loop ends only when running is false; a tick that   *)
(* has started notifying gets to its end, and the loop then starts the next *)
(* tick or exits.                                                           *)
C16_ObserversOncePerTick ==
  /\ []((tmPc \in {"check", "exited"} /\ tmIdx > 0) =>
          \A c \in 1..tmAtStart : tmCalls[c] = 1 /\ tmSeen[c] = tmSnap)
  /\ [](\A c \in 1..MaxObservers : tmCalls[c] <= 1)
  /\ []((tmPc = "exited") => ~tmRunning)
  /\ []((tmPc = "notify") => <>(tmPc = "check"))
  /\ []((tmPc = "check") => <>(tmPc = "notify" \/ tmPc = "exited"))

C16_Witness ==
  /\ tmPc = "check"
  /\ tmRunning
  /\ tmAtStart = MaxObservers
  /\ 1 \in tmRaised
  /\ \A c \in 1..MaxObservers : tmCalls[c] = 1 /\ tmSeen[c] = tmSnap

(* C17: after SIYIMK15.connect() succeeded a heartbeat thread is in its     *)
(* loop as long as running is true; while running stays true the loop       *)
(* tries a HEARTBEAT again and again; a thread leaves the heartbeat loop    *)
(* only when running is false, so not because a write failed.               *)
C17_HeartbeatRecurs ==
  /\ [](lcRunning["mk15"] => lcLoops["heartbeat"] > 0)
  /\ \A b \in {0, 1} :
       [](((lcRunning["mk15"]) /\ lcBeat = b) =>
            <>(~lcRunning["mk15"] \/ lcBeat # b))
  /\ [][(lcLoops'["heartbeat"] < lcLoops["heartbeat"]) =>
          ~lcRunning["mk15"]]_vars

C17_Witness ==
  /\ lcRunning["mk15"]
  /\ lcLoops["heartbeat"] = 1
  /\ lcBeat = 1
  /\ ~lcBeatOk
  /\ lcPort = "open"

(* C18: while SIYIMKController.connected is true, heartbeat packets keep    *)
(* being sent: after each one another one is sent or connected becomes      *)
(* false.                                                                   *)
C18_ControllerKeepalive ==
  \A b \in {0, 1} :
    [](((lcConnected) /\ lcUdpBeat = b) => <>(~lcConnected \/ lcUdpBeat # b))

(* C19: a connect() of a transport that fails to open its channel returns   *)
(* False and changes neither running, connected nor the loops, and sends    *)
(* nothing; a SIYIMK15 whose port was never opened is not running and has   *)
(* no loop thread.                                                          *)
C19_ConnectFailure ==
  /\ [][(lcLast' # lcLast /\ lcLast'[2] = "false") =>
          /\ lcRunning' = lcRunning
          /\ lcConnected' = lcConnected
          /\ lcLoops' = lcLoops
          /\ lcPort' = lcPort
          /\ lcBeat' = lcBeat
          /\ lcUdpBeat' = lcUdpBeat]_vars
  /\ []((lcPort = "none") =>
          /\ ~lcRunning["mk15"]
          /\ lcLoops["heartbeat"] = 0
          /\ lcLoops["listener"] = 0)

C19_Witness ==
  /\ lcLast = <<"mk15", "false">>
  /\ lcPort = "none"
  /\ ~lcRunning["mk15"]
  /\ ~lcConnected

(* C20: once running is false (stop() or disconnect() was called) and while *)
(* no start()/connect() sets it again, every loop thread of the component   *)
(* eventually leaves its loop.                                              *)
C20_CancellationTerminates ==
  \A loop \in {"heartbeat", "listener", "capture", "sampling"} :
    [](((~lcRunning[LoopOwner(loop)]) /\ lcLoops[loop] > 0) =>
         <>(lcRunning[LoopOwner(loop)] \/ lcLoops[loop] = 0))

C20_Witness ==
  /\ lcPort = "closed"
  /\ \A c \in {"mk15", "camera", "telemetry"} : ~lcRunning[c]
  /\ \A loop \in {"heartbeat", "listener", "capture", "sampling"} :
       lcLoops[loop] = 0

C22_OpenFailureIsFatal ==
  /\ [][(lcLast' # lcLast /\ lcLast'[1] = "camera" /\ lcLast'[2] = "false") =>
          /\ ~lcRunning["camera"]
          /\ ~lcRunning'["camera"]
          /\ lcLoops' = lcLoops
          /\ ~lcCamera'
          /\ lcLast'[3] = 1]_vars
  /\ []((lcLast[1] = "camera") => lcLast[3] <= 1)
  /\ []((foPc = "failed") =>
          /\ ~foRunning
          /\ foSiyi = "none" /\ foLivekit = "none" /\ ~foWeb
          /\ foTicks = 0 /\ foTelemetry = 0
          /\ foLink = {} /\ foMonitor = {} /\ foTasks = <<>>)

C22_Witness ==
  /\ lcLast = <<"camera", "false", 1>>
  /\ ~lcRunning["camera"]
  /\ lcLoops["capture"] = 0
  /\ foPc = "failed"

(* C23: telemetry is forwarded at its own rate, with or without frames:     *)
(* while the orchestrator runs, once the telemetry interval has elapsed the *)
(* snapshot is eventually forwarded (or the run ends).                      *)
C23_TelemetryOwnRate ==
  []((foRunning /\ foEnded = "no" /\ foTelemDue = "due") =>
       <>(~foRunning \/ foEnded # "no" \/ foTelemDue # "due"))

(* C28: every telemetry record that _update_telemetry forwards has the      *)
(* link-connected flag and the stream-connected flag of that moment, and    *)
(* the capture frame rate and the stream frame rate.                        *)
C28_RecordHasFlagsAndRates ==
  [][(foTelemetry' # foTelemetry) =>
       /\ {"siyi_connected", "livekit_connected", "camera_fps", "stream_fps"}
            \subseteq DOMAIN foRecord'
       /\ foRecord'["siyi_connected"] = "true" <=> foSiyi = "up"
       /\ foRecord'["livekit_connected"] = "true" <=> lkConnected]_vars

C25_FragmentsTileFrame ==
  LET RECURSIVE Concat(_)
      Concat(ds) == IF ds = <<>> THEN <<>> ELSE Head(ds) \o Concat(Tail(ds))
      ceil == IF svLen % 1400 = 0 THEN svLen \div 1400
              ELSE svLen \div 1400 + 1
      joined == Concat(svSent)
  IN /\ \A k \in 1..Len(svSent) : Len(svSent[k]) \in 1..1400
     /\ (svLen <= 1400) => Len(svSent) <= 1
     /\ joined = SubSeq(FrameData(svLen), 1, Len(joined))
     /\ (svRet = "true") => (Len(svSent) = ceil /\ Len(joined) = svLen)
     /\ (svRet = "false") => (Len(svSent) < ceil /\ svPc = "done")

C25_Witness ==
  /\ svRet = "true"
  /\ svLen = 2 * 1400 + 1
  /\ Len(svSent) = 3
  /\ Len(svSent[3]) = 1

(* C26: every packet that decode accepts has the checksum of the bytes      *)
(* before the checksum, and a length field equal to the size of the payload *)
(* that decode returns (SIYIMK15: payload size + 2; SIYIProtocol: payload   *)
(* size).                                                                   *)
C26_AcceptedPacketInvariant ==
  cdResult.ok =>
    IF cdCodec = "SIYIMK15"
    THEN /\ UnpackBE16(Slice(cdWire, 2, 4)) = Len(cdResult.data) + 2
         /\ UnpackBE16(SliceFrom(cdWire, Len(cdWire) - 2))
              = SumBytes(SliceToLast2(cdWire, 2)) % 65536
    ELSE /\ UnpackLE16(Slice(cdWire, 3, 5)) = Len(cdResult.data)
         /\ UnpackLE16(Slice(cdWire, 8 + Len(cdResult.data),
                             10 + Len(cdResult.data)))
              = calc_crc16(Slice(cdWire, 0, 8 + Len(cdResult.data)))

(* C27: after SIYIMK15.disconnect() the table response_callbacks is empty:  *)
(* the callbacks still registered at teardown have been removed.            *)
C27_TableEmptyAfterDisconnect ==
  [][(mkOpen /\ ~mkOpen') => \A c \in MkCommands : mkTable'[c] = 0]_vars

(* C29: in every state of LiveKitStreamer, whatever the interleaving of     *)
(* connect, start_streaming, stop_streaming and disconnect at their awaits, *)
(* streaming = True implies connected = True.                               *)
C29_StreamingImpliesConnected == stStreaming => stConnected

(* C30: after LiveKitStreamManager.stop(), run_streamer() leaves its wait   *)
(* loop and runs streamer.disconnect(): the streamer is eventually not      *)
(* connected.                                                               *)
C30_StopEndsDisconnected == [](mgStopPc = "done" => <>(~mgConnected))

----------------------------------------------------------------------------
(* C34: when one read puts two complete valid packets back to back in the   *)
(* receive buffer, the receive loop dispatches both, in order, and consumes *)
(* for each exactly its own bytes (nothing is left in the buffer).          *)
C34_BackToBackDispatched ==
  (rxBurst /\ rxFlip = 0 /\ rxTwo /\ rxWire = <<>>) =>
    /\ rxLog = <<rxFirst, rxSecond>>
    /\ rxBuffer = <<>>

(* C35: for every encoded packet of either codec, changing any single byte  *)
(* to a different value makes decode return None.                           *)
C35_OneByteCorruptionRejected == cdPc = "parsedhit" => ~cdResult.ok

(* C36: a callback registered by a successful send_command is never removed *)
(* from response_callbacks without having been invoked, whatever the        *)
(* interleaving of send_command with the receive loop.                      *)
C36_NoCallbackLostUninvoked ==
  [][\A c \in MkCommands :
       (mkTable[c] # 0 /\ mkTable'[c] # mkTable[c]) =>
         mkCalls'[mkTable[c]] >= 1]_vars

(* C39: when SIYIMK15.send_command fails (the port is absent or not open,   *)
(* or the write raises) it returns False and leaves response_callbacks as   *)
(* it was: the callback is not registered and no entry is removed; with the *)
(* port not open no send_command succeeds.                                  *)
C39_FailedSendKeepsTable ==
  /\ [][(mkFalse' # mkFalse) =>
          (mkTable' = mkTable /\ mkRequests' = mkRequests
           /\ mkSendPc' = mkSendPc)]_vars
  /\ [][(~mkOpen) =>
          (mkRequests' = mkRequests
           /\ (mkSendPc' = "written" => mkSendPc = "written"))]_vars

C39_Witness ==
  /\ mkFalse = 1
  /\ mkOpen
  /\ \E c \in MkCommands : mkTable[c] # 0
  /\ mkNextReg <= MaxRegistrations
  /\ mkLog = <<>>

(* C37: for any sequence of connect() and disconnect() calls on one         *)
(* SIYIMK15, at most one keepalive loop and at most one receive loop are    *)
(* running at any time.                                                     *)
C37_OneLoopPerSession ==
  /\ lcLoops["heartbeat"] <= 1
  /\ lcLoops["listener"] <= 1

(* C38: for any sequence of start() and stop() calls on JetsonCamera and on *)
(* JetsonTelemetry, at most one capture loop and at most one sampling loop  *)
(* are running at any time, also when the join in stop() times out before   *)
(* the old loop has exited and start() is called again.                     *)
C38_OneLoopPerComponent ==
  /\ lcLoops["capture"] <= 1
  /\ lcLoops["sampling"] <= 1

(* C31: no lock is held while a network send is performed: a thread of the  *)
(* web server that is in an emit to a client, or at the yield of frame      *)
(* bytes to a viewer, holds neither frame_lock nor telemetry_lock.          *)
C31_NoLockAcrossSend ==
  \A t \in {"main", "viewer", "client"} :
    wsPc[t] \in {"emit", "yield"} =>
      \A l \in {"frame_lock", "telemetry_lock"} : wsLock[l] # t

(* C33: in the JetsonTelemetry loop the sleep after a tick is               *)
(* max(0, interval - elapsed): it is never negative; when the work of the   *)
(* tick took at least the period the sleep is 0 and the next tick starts at *)
(* once; when it took less, the next tick starts one period after this one  *)
(* started, whatever the ticks before it took.                              *)
C33_TickSelfCorrects ==
  (tkPc = "start" /\ tkTick >= 1) =>
    /\ tkSleep >= 0
    /\ tkElapsed >= Interval(tkRate) =>
         (tkSleep = 0 /\ tkNow = tkStart + tkElapsed)
    /\ tkElapsed < Interval(tkRate) => tkNow = tkStart + Interval(tkRate)

C33_Witness ==
  /\ tkPc = "start"
  /\ tkTick = 2
  /\ tkStart = 3 * Interval(tkRate)
  /\ tkElapsed = Interval(tkRate) \div 2
  /\ tkSleep = Interval(tkRate) - tkElapsed
  /\ tkNow = 4 * Interval(tkRate)

(* C32: update_from_siyi merges a pushed record into current_telemetry:     *)
(* each GPS/attitude field present in the record takes the pushed value;    *)
(* every field not present in the record, every field of a disabled group   *)
(* and every other field keeps its previous value.                          *)
C32_PushedRecordMerged ==
  [][(thPushes' # thPushes) =>
       \A f \in TelemetryFields :
         thTelemetry'[f] =
           IF f \in DOMAIN thPushed'
              /\ ((thGps /\ f \in GpsFields)
                  \/ (thAttitude /\ f \in AttitudeFields))
           THEN thPushed'[f]
           ELSE thTelemetry[f]]_vars

====
